---- MODULE Spec2Model ----
(***************************************************************************)
(* Session orchestration engine of the SUNRISE Runtime Manager:           *)
(* the session state machine (Session), the per-session lock table and    *)
(* persisted snapshot (SessionsHandler), parameter mutation (Parameter)   *)
(* and the build/run execution path (System, ComputeDocker).              *)
(*                                                                         *)
(* One session id is modelled.  Python values are tuples whose head is    *)
(* the type tag: <<"bool","True">>, <<"str","a","b">> (the string "a/b"   *)
(* split at "/"), <<"int","5">>, <<"None">>.                               *)
(***************************************************************************)
EXTENDS Integers, Sequences, FiniteSets, TLC

\* ---------------------------------------------------------------- bounds
\* most log entries a session collects (every accepted execute appends one)
MaxLog == 2
\* most entries of a result's enabled_by list
MaxEnablers == 2
\* most entries of a parameter group of a SysDef or SysCfg
MaxEntries == 2
\* most chunks of container output that are followed through the progress
\* callback
MaxChunks == 2
\* most files of a batch handed to __copy_files
MaxBatch == 4

\* ------------------------------------------------------------ enumerations
CREATED == "created"
BUILDING == "building"
BUILT == "built"
FAILED_BUILD == "failed build"
RUNNING == "running"
RAN == "ran"
FAILED_RUN == "failed run"
State == {CREATED, BUILDING, BUILT, FAILED_BUILD, RUNNING, RAN, FAILED_RUN}

COMMON == "common_parameters"
BUILD == "build_parameters"
RUN == "run_parameters"
ParameterGroup == {COMMON, BUILD, RUN}

DEFAULT == 1
PENDING == 2
STAGED == 3
AVAILABLE == 4

\* ------------------------------------------------------------ Python values
PyNone == <<"None">>
PyTrue == <<"bool", "True">>
PyFalse == <<"bool", "False">>
IsBool(v) == v[1] = "bool"
IsStr(v) == v[1] = "str"

\* str.lower() on the one-segment strings the model uses
Lower(v) == IF v[2] \in {"True", "TRUE", "true"} THEN <<"str", "true">> ELSE v

\* os.path.join(a, b) on "/"-split strings
PathJoin(a, b) == a \o Tail(b)

\* constants.SESSIONS_BASE_DIR/<session id> and constants.CONTAINER_WORKDIR
SessionDir == <<"str", "sessions", "sid">>
CONTAINER_WORKDIR == <<"str", "", "sysapi">>

\* ------------------------------------------------------- threads of control
\* request threads (one per REST call or API caller) and the threads that
\* Session.execute starts for asynchronous commands
Callers == {"c1", "c2"}
WorkerOf(c) == IF c = "c1" THEN "w1" ELSE "w2"
Workers == {WorkerOf(c) : c \in Callers}
Threads == Callers \cup Workers
NoThread == "none"

\* ----------------------------------------------------------- the definition
\* SysDef of the modelled system: a boolean parameter and a file parameter
ParamNames == {"tracing", "input"}
IsFileParam(n) == n = "input"
DefaultValue(n) == IF n = "tracing" THEN PyFalse ELSE <<"str", "default.bin">>

\* origins a SysCfg can give the file parameter: an existing local file, a
\* URL, and a string that is neither
LocalOrigin == <<"str", "", "host", "data.bin">>
UrlOrigin == <<"str", "https:", "", "srv", "data.bin">>
OtherOrigin == <<"str", "data.bin">>
IsLocalFile(p) == p = LocalOrigin
IsUrl(p) == Len(p) >= 3 /\ p[2] \in {"http:", "https:", "ftp:"} /\ p[3] = ""

VARIABLES
    sysdef,     \* [build_command, group]: SysDef's build command, each parameter's group
    file,       \* the pickled Session in <session dir>/session_data
    disk,       \* files below <session dir>/inputs
    lockTable,  \* SessionsHandler._opened_sessions[session id]: a lock or none
    locked,     \* the lock objects that are locked
    container,  \* [owner, stopped]: the container sunrise_session_container_<id>
    volume,     \* the Docker volume sunrise_session_volume_<id>: "created" or "removed"
    pc,         \* each thread's position
    op,         \* each thread's request
    nxt,        \* where a thread goes once its SessionsHandler is entered
    look,       \* session_look of the thread's __open_storage_file
    sess,       \* the Session object the thread's SessionsHandler loaded
    res,        \* how the thread's request ended
    exc,        \* what System.execute returned ("", "out") or the exception it raised
    invoked,    \* whether the thread's request called build_system/run_system
    inp,        \* the arguments of the call a sequential specification examines
    out         \* what that call returned or raised

vars == <<sysdef, file, disk, lockTable, locked, container, volume,
          pc, op, nxt, look, sess, res, exc, invoked, inp, out>>

\* ----------------------------------------------------- Parameter.__init__
NoFileData == [file_name |-> PyNone, file_state |-> 0, file_path_origin |-> PyNone,
               file_path_local |-> PyNone, file_path_container |-> PyNone,
               credentials |-> PyNone]

\* Parameter(name, value, sysdef_value, overwritten): value and file_data
NewParameter(n, cfg) ==
    LET overwritten == cfg # PyNone
        value == IF overwritten THEN cfg ELSE DefaultValue(n)
    IN  [value |-> value,
         file_data |->
            IF ~IsFileParam(n) THEN NoFileData
            ELSE IF overwritten
                 THEN [NoFileData EXCEPT !.file_path_origin = value,
                                         !.file_state = PENDING]
                 ELSE [NoFileData EXCEPT !.file_path_container = DefaultValue(n),
                                         !.file_state = DEFAULT]]

\* lines 275-284 without the test for an empty command (line 279)
HasBuildIgnoresEmpty(build_command) == build_command # PyNone

\* System.__parse_system_config, lines 275-284: a build command that is
\* absent or empty is no build command
HasBuild(build_command) == build_command # PyNone /\ Len(Tail(build_command)) # 0
has_build == HasBuild(sysdef.build_command)

\* the build commands of the modelled definitions: none, "" and "make"
BuildCommands == {PyNone, <<"str">>, <<"str", "make">>}

\* Session.__init__: the state a new session starts in
InitialState(hasBuild) == IF hasBuild THEN CREATED ELSE BUILT

NewSession(hasBuild, cfg) ==
    [state |-> InitialState(hasBuild),
     log_entries |-> <<>>,
     parameters |-> [n \in ParamNames |-> NewParameter(n, cfg[n])]]

NoSession == [state |-> "none", log_entries |-> <<>>,
              parameters |-> [n \in ParamNames |-> [value |-> PyNone, file_data |-> NoFileData]]]
NoOp == [kind |-> "none", cmd |-> "-", async |-> FALSE, group |-> "-"]
NoCall == <<>>

\* the definitions (group of each parameter) and configurations sessions are
\* created from
Definitions ==
    { [tracing |-> BUILD, input |-> COMMON],
      [tracing |-> RUN, input |-> BUILD],
      [tracing |-> COMMON, input |-> RUN] }
Configurations == { [tracing |-> PyNone, input |-> PyNone] }

\* SessionsHandler.create_session: the session file holds a new Session of
\* one of the definitions and configurations, nothing else has happened
Created(defs, cfgs) ==
    /\ sysdef \in [build_command : BuildCommands, group : defs]
    /\ sysdef.build_command = <<"str">> => sysdef.group.tracing = BUILD
    /\ \E cfg \in cfgs : file = NewSession(has_build, cfg)
    /\ disk = {}
    /\ lockTable = NoThread
    /\ locked = {}
    /\ container = [owner |-> NoThread, stopped |-> FALSE]
    /\ volume = "created"
    /\ pc = [t \in Threads |-> "idle"]
    /\ op = [t \in Threads |-> NoOp]
    /\ nxt = [t \in Threads |-> "-"]
    /\ look = [t \in Threads |-> NoThread]
    /\ sess = [t \in Threads |-> NoSession]
    /\ res = [t \in Threads |-> "none"]
    /\ exc = [t \in Threads |-> "-"]
    /\ invoked = [t \in Threads |-> FALSE]

InitWith(defs, cfgs) ==
    /\ Created(defs, cfgs)
    /\ inp = NoCall
    /\ out = NoCall

Init == InitWith(Definitions, Configurations)

\* --------------------------------------------------------------- Parameter
\* Parameter.update_parameter: the new value, or the exception it raises
UpdateParameter(p, new_value) ==
    IF IsBool(p.value)
    THEN IF IsBool(new_value) THEN [err |-> "", param |-> [p EXCEPT !.value = new_value]]
         ELSE IF ~IsStr(new_value) THEN [err |-> "AttributeError", param |-> p]
         ELSE IF Lower(new_value) = <<"str", "true">>
              THEN [err |-> "", param |-> [p EXCEPT !.value = PyTrue]]
              ELSE [err |-> "", param |-> [p EXCEPT !.value = PyFalse]]
    ELSE [err |-> "", param |-> [p EXCEPT !.value = new_value]]

\* inputs/<group>/<parameter>/<file name> below the session directory and
\* below the container's working directory
LocalInputPath(g, n, file_name) == PathJoin(SessionDir, <<"str", "inputs", g, n>> \o Tail(file_name))
ContainerInputPath(g, n, file_name) ==
    PathJoin(CONTAINER_WORKDIR, <<"str", "inputs", g, n>> \o Tail(file_name))

\* Parameter.process_input_file with line 144 setting PENDING
ProcessInputFileAsPending(p, g, n, file_name, d) ==
    IF p.file_data.file_state = 0
    THEN [err |-> "NameError", param |-> p, disk |-> d]
    ELSE IF p.file_data.file_path_container = PyNone /\ p.file_data.file_path_origin = PyNone
    THEN [err |-> "ValueError", param |-> p, disk |-> d]
    ELSE [err |-> "",
          param |-> [p EXCEPT !.file_data.file_name = file_name,
                              !.file_data.file_state = PENDING,
                              !.file_data.file_path_container = ContainerInputPath(g, n, file_name),
                              !.file_data.file_path_local = LocalInputPath(g, n, file_name)],
          disk |-> d \cup {LocalInputPath(g, n, file_name)}]

\* Parameter.process_input_file: [err, param, disk]
ProcessInputFile(p, g, n, file_name, d) ==
    IF p.file_data.file_state = 0
    THEN [err |-> "NameError", param |-> p, disk |-> d]
    ELSE IF p.file_data.file_path_container = PyNone /\ p.file_data.file_path_origin = PyNone
    THEN [err |-> "ValueError", param |-> p, disk |-> d]
    ELSE [err |-> "",
          param |-> [p EXCEPT !.file_data.file_name = file_name,
                              !.file_data.file_state = STAGED,
                              !.file_data.file_path_container = ContainerInputPath(g, n, file_name),
                              !.file_data.file_path_local = LocalInputPath(g, n, file_name)],
          disk |-> d \cup {LocalInputPath(g, n, file_name)}]

\* Parameter.reset without lines 158-159 and 165: the staged copy and its
\* path stay
ResetKeepsLocalCopy(p, n, d) ==
    IF p.file_data.file_state # 0
    THEN [param |-> [p EXCEPT !.file_data.file_path_container = DefaultValue(n),
                              !.file_data.file_state = DEFAULT,
                              !.file_data.credentials = PyNone,
                              !.file_data.file_name = PyNone,
                              !.file_data.file_path_origin = PyNone],
          disk |-> d]
    ELSE [param |-> [p EXCEPT !.value = DefaultValue(n)], disk |-> d]

\* Parameter.reset: [param, disk]
Reset(p, n, d) ==
    IF p.file_data.file_state # 0
    THEN [param |-> [p EXCEPT !.file_data.file_path_container = DefaultValue(n),
                              !.file_data.file_state = DEFAULT,
                              !.file_data.credentials = PyNone,
                              !.file_data.file_name = PyNone,
                              !.file_data.file_path_origin = PyNone,
                              !.file_data.file_path_local = PyNone],
          disk |-> d \ {p.file_data.file_path_local}]
    ELSE [param |-> [p EXCEPT !.value = DefaultValue(n)], disk |-> d]

\* Parameter.stage_file with the download ending `fetch` ("ok", or the
\* exception urlopen raises: "HTTPError", or "URLError" when the server is not
\* reached; line 211 catches HTTPError only): [err, param, disk]
StageFile(p, g, n, fetch, d) ==
    IF p.file_data.file_state # PENDING
    THEN [err |-> "", param |-> p, disk |-> d]
    ELSE IF IsLocalFile(p.file_data.file_path_origin)
    THEN IF p.file_data.file_name = PyNone
         THEN [err |-> "TypeError", param |-> p, disk |-> d]
         ELSE [err |-> "",
               param |-> [p EXCEPT
                   !.file_data.file_path_container =
                        ContainerInputPath(g, n, p.file_data.file_name),
                   !.file_data.file_path_local = LocalInputPath(g, n, p.file_data.file_name),
                   !.file_data.file_state = STAGED],
               disk |-> d \cup {LocalInputPath(g, n, p.file_data.file_name)}]
    ELSE IF IsUrl(p.file_data.file_path_origin)
    THEN IF fetch = "HTTPError"
         THEN [err |-> "FileNotFoundError", param |-> p, disk |-> d]
         ELSE IF fetch # "ok"
         THEN [err |-> fetch, param |-> p, disk |-> d]
         ELSE LET o == p.file_data.file_path_origin
                  file_name == <<"str", o[Len(o)]>>
              IN  [err |-> "",
                   param |-> [p EXCEPT
                       !.file_data.file_name = file_name,
                       !.file_data.file_path_container = ContainerInputPath(g, n, file_name),
                       !.file_data.file_path_local = LocalInputPath(g, n, file_name),
                       !.file_data.file_state = STAGED],
                   disk |-> d \cup {LocalInputPath(g, n, file_name)}]
    ELSE [err |-> "FileNotFoundError", param |-> p, disk |-> d]

\* Parameter.mark_file_parameter_available
MarkFileParameterAvailable(p) ==
    IF p.file_data.file_state = STAGED THEN [p EXCEPT !.file_data.file_state = AVAILABLE] ELSE p

\* ----------------------------------------------------------------- Session
\* System.get_parameter: whether the group holds a parameter of that name
HasParameter(g, n) == n \in ParamNames /\ sysdef.group[n] = g

\* __update_state_after_param_change without the test of line 117
UpdateStateAlwaysCreated(state, changed_param_group, hasBuild) ==
    IF changed_param_group \in {COMMON, BUILD}
    THEN IF state \in {BUILT, FAILED_BUILD, RAN, FAILED_RUN} THEN CREATED ELSE state
    ELSE IF changed_param_group = RUN /\ state \in {RAN, FAILED_RUN} THEN BUILT
    ELSE state

\* __update_state_after_param_change with the run group handled by the
\* branch of line 114
UpdateStateRunLikeBuild(state, changed_param_group, hasBuild) ==
    IF state \in {BUILT, FAILED_BUILD, RAN, FAILED_RUN}
    THEN (IF hasBuild THEN CREATED ELSE BUILT)
    ELSE state

\* Session.__update_state_after_param_change
UpdateStateAfterParamChange(state, changed_param_group, hasBuild) ==
    IF changed_param_group \in {COMMON, BUILD}
    THEN IF state \in {BUILT, FAILED_BUILD, RAN, FAILED_RUN}
         THEN (IF hasBuild THEN CREATED ELSE BUILT)
         ELSE state
    ELSE IF changed_param_group = RUN /\ state \in {RAN, FAILED_RUN} THEN BUILT
    ELSE state

\* whether Session.update / Session.add refuse the session state
LockedForUpdate(state) == state \in {BUILDING, RUNNING}
LockedForAdd(state) == state \in {BUILDING, RUNNING}

\* Session.update, Session.add and Session.delete on the loaded session s:
\* [err, sess, disk]
SessionUpdate(s, g, n, v, d) ==
    IF LockedForUpdate(s.state) THEN [err |-> "LockedSessionError", sess |-> s, disk |-> d]
    ELSE IF ~HasParameter(g, n) THEN [err |-> "ValueError", sess |-> s, disk |-> d]
    ELSE LET r == UpdateParameter(s.parameters[n], v)
         IN  IF r.err # "" THEN [err |-> r.err, sess |-> s, disk |-> d]
             ELSE [err |-> "",
                   sess |-> [s EXCEPT !.parameters[n] = r.param,
                                      !.state = UpdateStateAfterParamChange(
                                                    s.state, g, has_build)],
                   disk |-> d]

\* Session.add with line 160 reached also when process_input_file raised
SessionAddAlwaysUpdatesState(s, g, n, file_name, d) ==
    IF LockedForAdd(s.state) THEN [err |-> "LockedSessionError", sess |-> s, disk |-> d]
    ELSE IF ~HasParameter(g, n) THEN [err |-> "ValueError", sess |-> s, disk |-> d]
    ELSE LET r == ProcessInputFile(s.parameters[n], g, n, file_name, d)
         IN  [err |-> r.err,
              sess |-> [s EXCEPT !.parameters[n] = r.param,
                                 !.state = UpdateStateAfterParamChange(s.state, g, has_build)],
              disk |-> r.disk]

SessionAdd(s, g, n, file_name, d) ==
    IF LockedForAdd(s.state) THEN [err |-> "LockedSessionError", sess |-> s, disk |-> d]
    ELSE IF ~HasParameter(g, n) THEN [err |-> "ValueError", sess |-> s, disk |-> d]
    ELSE LET r == ProcessInputFile(s.parameters[n], g, n, file_name, d)
         IN  IF r.err # "" THEN [err |-> r.err, sess |-> s, disk |-> d]
             ELSE [err |-> "",
                   sess |-> [s EXCEPT !.parameters[n] = r.param,
                                      !.state = UpdateStateAfterParamChange(
                                                    s.state, g, has_build)],
                   disk |-> r.disk]

SessionDelete(s, g, n, d) ==
    IF ~HasParameter(g, n) THEN [err |-> "ValueError", sess |-> s, disk |-> d]
    ELSE LET r == Reset(s.parameters[n], n, d)
         IN  [err |-> "",
              sess |-> [s EXCEPT !.parameters[n] = r.param,
                                 !.state = UpdateStateAfterParamChange(
                                               s.state, g, has_build)],
              disk |-> r.disk]

\* __execute_precondition_check without the test of line 182
PreconditionIgnoresBusy(state, command, hasBuild) ==
    command = "run" /\ hasBuild /\ state \notin {BUILT, RAN, FAILED_RUN}

\* __execute_precondition_check with FAILED_BUILD among the states of line 188
PreconditionAllowsFailedBuild(state, command, hasBuild) ==
    \/ state \in {BUILDING, RUNNING}
    \/ command = "run" /\ hasBuild /\ state \notin {BUILT, RAN, FAILED_RUN, FAILED_BUILD}

\* Session.__execute_precondition_check: whether it raises UnexpectedSessionState
ExecutePreconditionFails(state, command, hasBuild) ==
    \/ state \in {BUILDING, RUNNING}
    \/ command = "run" /\ hasBuild /\ state \notin {BUILT, RAN, FAILED_RUN}

\* state_mapping read at index 1 where line 206 reads index 0
InitialStateFromSuccess(command) == IF command = "build" THEN BUILT ELSE RAN

\* state_mapping of Session.execute
InitialStateOf(command) == IF command = "build" THEN BUILDING ELSE RUNNING
\* state_mapping with BUILT as the success state of both commands
SuccessStateAlwaysBuilt(command) == BUILT
SuccessStateOf(command) == IF command = "build" THEN BUILT ELSE RAN
FailureStateOf(command) == IF command = "build" THEN FAILED_BUILD ELSE FAILED_RUN

\* log messages are the sequence of the texts appended to them
StartMessage == <<"--- starting execution ---">>
NoOutput == "No output generated"
Concat(message, text) == IF text = "" THEN message ELSE Append(message, text)
\* log_entries[0] in the place of log_entries[-1]
AppendToFirst(log, text) ==
    [log EXCEPT ![1].message = Concat(@, text)]
AppendToLast(log, text) ==
    [log EXCEPT ![Len(log)].message = Concat(@, text)]
StartEntry(command) == [producer |-> <<"container", command>>, message |-> StartMessage]

\* ------------------------------------------------------------------ System
\* System.__get_file_copy_list for two groups in turn: [err, sess, disk]
StageGroups(s, groups, fetch, d) ==
    LET staged(n) == StageFile(s.parameters[n], sysdef.group[n], n, fetch, d)
        todo == {n \in ParamNames : sysdef.group[n] \in groups}
    IN  [err |-> IF \E n \in todo : staged(n).err # ""
                 THEN (CHOOSE e \in {staged(n).err : n \in todo} : e # "")
                 ELSE "",
         sess |-> [s EXCEPT !.parameters =
                     [n \in ParamNames |-> IF n \in todo THEN staged(n).param ELSE @[n]]],
         disk |-> UNION ({d} \cup {staged(n).disk : n \in todo})]

\* the groups System.execute stages files of, and those it marks available
StagedGroups(command) == IF command = "build" THEN {COMMON, BUILD} ELSE {COMMON, RUN}
MarkedGroups(command) == IF command = "build" THEN {BUILD} ELSE {RUN}

\* System.mark_file_parameters_available_for_build / _for_run
MarkAvailable(s, command) ==
    [s EXCEPT !.parameters =
        [n \in ParamNames |-> IF sysdef.group[n] \in MarkedGroups(command)
                              THEN MarkFileParameterAvailable(@[n]) ELSE @[n]]]

\* System.execute without a build command returns "" for "build"
NoBackendCall(command) == command = "build" /\ ~has_build

\* ------------------------------------------ System.__parse_parameter_group
\* a dict is <<"dict", items>>, items the sequence of its <<key, value>> pairs
\* in insertion order; a SysDefCmplxParameter is <<"SysDefCmplxParameter",
\* default_value, meta>>, a SysDefParameterFile <<"SysDefParameterFile",
\* is_file>>, a SysCfgUrlParameter <<"SysCfgUrlParameter", url, credentials>>
IsNone(v) == v[1] = "None"
Items(d) == d[2]
HasKey(d, k) == \E i \in 1..Len(Items(d)) : Items(d)[i][1] = k
Get(d, k) == Items(d)[CHOOSE i \in 1..Len(Items(d)) : Items(d)[i][1] = k][2]
IsCmplx(v) == v[1] = "SysDefCmplxParameter"
IsFileMeta(v) == v[1] = "SysDefParameterFile"
IsUrlParameter(v) == v[1] = "SysCfgUrlParameter"

\* Parameter.__init__ and __parse_file_parameter
ParameterInit(name, value, sysdef_param_value, overwritten) ==
    LET cmplx == IsCmplx(sysdef_param_value)
        default_value == IF cmplx THEN sysdef_param_value[2] ELSE sysdef_param_value
        is_file == cmplx /\ IsFileMeta(sysdef_param_value[3])
                         /\ sysdef_param_value[3][2] = PyTrue
    IN  [name |-> name,
         value |-> IF cmplx /\ ~overwritten THEN default_value ELSE value,
         overwritten |-> overwritten,
         default_value |-> default_value,
         file_data |->
            IF ~is_file THEN NoFileData
            ELSE IF overwritten
            THEN [NoFileData EXCEPT
                    !.file_path_origin = IF IsUrlParameter(value) THEN value[2] ELSE value,
                    !.credentials = IF IsUrlParameter(value) THEN value[3] ELSE PyNone,
                    !.file_state = PENDING]
            ELSE [NoFileData EXCEPT !.file_path_container = default_value,
                                    !.file_state = DEFAULT]]

\* lines 204-205 without the test for a null value
OverridesAlsoNull(syscfg_parameters, param_name) ==
    ~IsNone(syscfg_parameters) /\ HasKey(syscfg_parameters, param_name)

\* lines 204-205: the configuration overwrites the parameter
Overrides(syscfg_parameters, param_name) ==
    /\ ~IsNone(syscfg_parameters)
    /\ HasKey(syscfg_parameters, param_name)
    /\ ~IsNone(Get(syscfg_parameters, param_name))

\* lines 174-187 testing only the keys that carry a value
CfgKeyUnknownUnlessNull(sysdef_parameters, syscfg_parameters) ==
    /\ ~IsNone(syscfg_parameters)
    /\ \E i \in 1..Len(Items(syscfg_parameters)) :
        /\ ~IsNone(Items(syscfg_parameters)[i][2])
        /\ \/ IsNone(sysdef_parameters)
           \/ ~HasKey(sysdef_parameters, Items(syscfg_parameters)[i][1])

\* lines 174-187: the configuration group names a parameter the definition
\* group does not have
CfgKeyUnknown(sysdef_parameters, syscfg_parameters) ==
    /\ ~IsNone(syscfg_parameters)
    /\ \/ IsNone(sysdef_parameters) /\ Len(Items(syscfg_parameters)) > 0
       \/ \E i \in 1..Len(Items(syscfg_parameters)) :
            ~HasKey(sysdef_parameters, Items(syscfg_parameters)[i][1])

\* System.__parse_parameter_group: the list of Parameter objects, or ValueError
ParseParameterGroup(sysdef_parameters, syscfg_parameters) ==
    IF CfgKeyUnknown(sysdef_parameters, syscfg_parameters)
    THEN [raised |-> "ValueError", parameter_group |-> <<>>]
    ELSE IF IsNone(sysdef_parameters)
    THEN [raised |-> "", parameter_group |-> <<>>]
    ELSE [raised |-> "",
          parameter_group |->
            [i \in 1..Len(Items(sysdef_parameters)) |->
                LET param_name == Items(sysdef_parameters)[i][1]
                    sysdef_param_value == Items(sysdef_parameters)[i][2]
                    overwritten == Overrides(syscfg_parameters, param_name)
                IN  ParameterInit(param_name,
                                  IF overwritten THEN Get(syscfg_parameters, param_name)
                                  ELSE sysdef_param_value,
                                  sysdef_param_value, overwritten)]]

\* ------------------------------------------ Session.get_result_availability
\* the characters of a State member, which is a str
Chars(state) ==
    CASE state = CREATED -> <<"c", "r", "e", "a", "t", "e", "d">>
      [] state = BUILDING -> <<"b", "u", "i", "l", "d", "i", "n", "g">>
      [] state = BUILT -> <<"b", "u", "i", "l", "t">>
      [] state = FAILED_BUILD -> <<"f", "a", "i", "l", "e", "d", " ", "b", "u", "i", "l", "d">>
      [] state = RUNNING -> <<"r", "u", "n", "n", "i", "n", "g">>
      [] state = RAN -> <<"r", "a", "n">>
      [] state = FAILED_RUN -> <<"f", "a", "i", "l", "e", "d", " ", "r", "u", "n">>

\* a in b for two str: a occurs in b
StrIn(a, b) ==
    \E i \in 0..(Len(b) - Len(a)) : SubSeq(b, i + 1, i + Len(a)) = a

\* line 325, self.state in dataformats.State.RAN
InRan(state) == StrIn(Chars(state), Chars(RAN))

\* a parameter that System.get_parameter does not find
Absent == <<"absent">>

\* what get_result_availability returns (available, message) or raises
Available == [available |-> TRUE, message |-> PyNone, raised |-> ""]
Unavailable(message) == [available |-> FALSE, message |-> message, raised |-> ""]
Raises(e) == [available |-> FALSE, message |-> PyNone, raised |-> e]

\* lines 307-331 with `in State.RAN` read as a test against every later state
EnabledByFromRunOn(state, enabled_by, parameters) ==
    IF \E i \in 1..Len(enabled_by) :
            LET e == enabled_by[i] IN
            \/ parameters[<<e[Len(e) - 1], e[Len(e)]>>] # PyTrue
            \/ e[Len(e) - 1] = BUILD /\ state \notin {BUILT, RUNNING, RAN, FAILED_RUN}
            \/ e[Len(e) - 1] = RUN /\ state \notin {RUNNING, RAN, FAILED_RUN}
    THEN Unavailable(<<"unavailable">>)
    ELSE Available

\* lines 307-331, the loop over enabled_by from its first entry on: the first
\* entry that fails decides.  An entry is a JSON pointer #/<group>/<name>,
\* here <<"str", "#", group, name>>; parameters maps <<group, name>> to the
\* value of the parameter or to Absent.
RECURSIVE EnabledBy(_, _, _)
EnabledBy(state, enabled_by, parameters) ==
    IF enabled_by = <<>> THEN Available
    ELSE LET enable_entry == Head(enabled_by)
             parameter_name == enable_entry[Len(enable_entry)]
             parameter_group == enable_entry[Len(enable_entry) - 1]
             value == parameters[<<parameter_group, parameter_name>>]
         IN  IF parameter_group \notin ParameterGroup THEN Raises("ValueError")
             ELSE IF value = Absent THEN Raises("AttributeError")
             ELSE IF ~IsBool(value) THEN Unavailable(<<"not a boolean type", parameter_name>>)
             ELSE IF value # PyTrue THEN Unavailable(<<"not set to true", parameter_name>>)
             ELSE IF parameter_group = BUILD /\ state \notin {BUILT, RUNNING, RAN, FAILED_RUN}
             THEN Unavailable(<<"state", state, BUILT>>)
             ELSE IF parameter_group = RUN /\ ~InRan(state)
             THEN Unavailable(<<"state", state, RAN>>)
             ELSE EnabledBy(state, Tail(enabled_by), parameters)

\* lines 332-337 with the test of line 334 inverted
NoEnablerNeverRan(state) ==
    IF state = RAN THEN Unavailable(<<"state", state, RAN>>) ELSE Available

\* lines 332-337: a result without enabled_by is there after a successful run
NoEnabler(state) ==
    IF state # RAN THEN Unavailable(<<"state", state, RAN>>) ELSE Available

\* Session.get_result_availability for a result whose enabled_by is given
\* (PyNone: the result has none, or is a plain path)
GetResultAvailability(state, enabled_by, parameters) ==
    IF enabled_by # PyNone
    THEN EnabledBy(state, enabled_by, parameters)
    ELSE NoEnabler(state)

\* --------------------------------------------------------- SessionsHandler
\* the open that precedes a worker's System.execute is read_only=True
ReadOnly(t) == nxt[t] = "w_call"

\* os.path.isfile(session_file_path), lines 448 and 486
SessionFileFound == file # NoSession
\* pickle.load of the session file: ComputeDocker.__setstate__ looks up the
\* session's volume (compute_docker.py lines 143-148)
Loadable == SessionFileFound /\ volume = "created"

\* __close_storage_file: pickle the session, then release the lock the table
\* holds; release() of an unlocked lock raises RuntimeError
Close(s) == SessionFileFound /\ file' = s /\ locked' = locked \ {lockTable}
ReleaseFails == lockTable \notin locked

\* the request (or thread) of t ends with r
Done(t, r) ==
    /\ pc' = [pc EXCEPT ![t] = "done"]
    /\ res' = [res EXCEPT ![t] = r]
    /\ sess' = [sess EXCEPT ![t] = NoSession]
    /\ look' = [look EXCEPT ![t] = NoThread]
    /\ nxt' = [nxt EXCEPT ![t] = "-"]

\* the thread of an asynchronous execute ends: what it did is in the session
\* file, nothing else remains of it
WorkerEnd(t) ==
    /\ pc' = [pc EXCEPT ![t] = "idle"]
    /\ res' = [res EXCEPT ![t] = "none"]
    /\ sess' = [sess EXCEPT ![t] = NoSession]
    /\ look' = [look EXCEPT ![t] = NoThread]
    /\ nxt' = [nxt EXCEPT ![t] = "-"]
    /\ op' = [op EXCEPT ![t] = NoOp]
    /\ exc' = [exc EXCEPT ![t] = "-"]
    /\ invoked' = [invoked EXCEPT ![t] = FALSE]

\* whether a thread is between lines 429 and 432 with a lock still to store:
\* only then can the table entry change
TableSettled == lockTable # NoThread /\ \A u \in Threads : pc[u] # "bind"

\* t enters a with SessionsHandler(...) block whose body is at label.  Once
\* the table entry is settled, line 430 reads the same lock whenever it runs,
\* so the read is taken here; otherwise the thread goes to line 429.
Reopen(t, label) ==
    /\ nxt' = [nxt EXCEPT ![t] = label]
    /\ IF TableSettled
       THEN /\ look' = [look EXCEPT ![t] = lockTable]
            /\ IF label = "w_call"
               THEN /\ sess' = [sess EXCEPT ![t] = file]
                    /\ pc' = [pc EXCEPT ![t] = label]
               ELSE /\ sess' = [sess EXCEPT ![t] = NoSession]
                    /\ pc' = [pc EXCEPT ![t] = "acquire"]
       ELSE /\ pc' = [pc EXCEPT ![t] = "lookup"]
            /\ sess' = [sess EXCEPT ![t] = NoSession]
            /\ look' = [look EXCEPT ![t] = NoThread]

\* __open_storage_file, line 429: is the session id in _opened_sessions?
\* When it is, the lock is read (line 430); a read-only open then loads the
\* snapshot without touching the lock.
Lookup(t) ==
    /\ pc[t] = "lookup"
    /\ IF lockTable = NoThread
       THEN /\ pc' = [pc EXCEPT ![t] = "bind"]
            /\ UNCHANGED <<look, sess>>
       ELSE /\ look' = [look EXCEPT ![t] = lockTable]
            /\ IF ReadOnly(t)
               THEN /\ sess' = [sess EXCEPT ![t] = file]
                    /\ pc' = [pc EXCEPT ![t] = nxt[t]]
               ELSE /\ pc' = [pc EXCEPT ![t] = "acquire"]
                    /\ UNCHANGED sess
    /\ UNCHANGED <<volume, inp, out, sysdef, file, disk, lockTable, locked, container, op, nxt, res, exc, invoked>>

\* lines 432-433: a new lock (named after its creator) is stored in the table,
\* replacing whatever another thread stored since line 429
Bind(t) ==
    /\ pc[t] = "bind"
    /\ look' = [look EXCEPT ![t] = t]
    /\ lockTable' = t
    /\ IF ReadOnly(t)
       THEN /\ sess' = [sess EXCEPT ![t] = file]
            /\ pc' = [pc EXCEPT ![t] = nxt[t]]
       ELSE /\ pc' = [pc EXCEPT ![t] = "acquire"]
            /\ UNCHANGED sess
    /\ UNCHANGED <<volume, inp, out, sysdef, file, disk, locked, container, op, nxt, res, exc, invoked>>

\* line 440, acquire(timeout=1.0) succeeds; lines 445-479 load the snapshot
Acquire(t) ==
    /\ pc[t] = "acquire"
    /\ look[t] \notin locked
    /\ Loadable
    /\ locked' = locked \cup {look[t]}
    /\ sess' = [sess EXCEPT ![t] = file]
    /\ pc' = [pc EXCEPT ![t] = nxt[t]]
    /\ UNCHANGED <<volume, inp, out, sysdef, file, disk, lockTable, container, op, nxt, look, res, exc, invoked>>

\* lines 436-438 taken without the force argument: the open goes on although
\* the lock is locked
AcquireForced(t) ==
    /\ pc[t] = "acquire"
    /\ look[t] \in locked
    /\ sess' = [sess EXCEPT ![t] = file]
    /\ pc' = [pc EXCEPT ![t] = nxt[t]]
    /\ UNCHANGED <<volume, inp, out, sysdef, file, disk, lockTable, locked, container, op, nxt, look, res, exc, invoked>>

\* write_to_log returns to the loop over the container's log stream
\* (compute_docker.py lines 263-265)
CallbackEnd(t) ==
    /\ pc' = [pc EXCEPT ![t] = "w_run"]
    /\ sess' = [sess EXCEPT ![t] = NoSession]
    /\ look' = [look EXCEPT ![t] = NoThread]
    /\ nxt' = [nxt EXCEPT ![t] = "-"]

\* lines 440-443: the lock stays locked for a second, LockedSessionError.
\* put/post/delete_session_parameter then ask for the session state; a worker
\* goes to its except branch, and dies if it is already there; write_to_log
\* catches the exception, logs it and returns (lines 250-252).
AcquireTimeout(t) ==
    /\ pc[t] = "acquire"
    /\ look[t] \in locked
    /\ IF nxt[t] = "mutate"
       THEN Reopen(t, "errstatus") /\ res' = [res EXCEPT ![t] = "LockedSessionError"]
                                   /\ UNCHANGED <<op, exc, invoked>>
       ELSE IF nxt[t] = "w_done"
       THEN Reopen(t, "w_fail") /\ exc' = [exc EXCEPT ![t] = "LockedSessionError"]
                                /\ UNCHANGED <<op, res, invoked>>
       ELSE IF nxt[t] = "w_fail"
       THEN WorkerEnd(t)
       ELSE IF nxt[t] = "w_log"
       THEN CallbackEnd(t) /\ UNCHANGED <<op, res, exc, invoked>>
       ELSE Done(t, "LockedSessionError") /\ UNCHANGED <<op, exc, invoked>>
    /\ UNCHANGED <<volume, inp, out, sysdef, file, disk, lockTable, locked, container>>

\* ---------------------------------------------------------------- requests
UpdateValues == {PyTrue, PyFalse, <<"str", "True">>, <<"str", "off">>, <<"int", "5">>}
UploadName == <<"str", "up.bin">>

\* the requests: Session.execute(command, async_execution) and the parameter
\* endpoints on (group, name); a request's arguments are not read before the
\* body of its first SessionsHandler block runs, and the model draws them there
ExecuteRequests ==
    [kind : {"execute"}, cmd : {"build", "run", "clean"}, async : BOOLEAN, group : {"-"}]
MutateRequests ==
    [kind : {"update", "add", "delete"}, cmd : {"-"}, async : {FALSE}, group : ParameterGroup]

\* the executes under way that have not yet appended their log entry
PendingAppends == Cardinality({u \in Callers : nxt[u] \in {"precheck", "logappend"}})

\* a caller issues a request, which starts by entering a SessionsHandler
Begin(t, label) ==
    /\ t \in Callers
    /\ pc[t] \in {"idle", "done"}
    /\ Reopen(t, label)
    /\ res' = [res EXCEPT ![t] = "pending"]
    /\ op' = [op EXCEPT ![t] = NoOp]
    /\ exc' = [exc EXCEPT ![t] = "-"]
    /\ invoked' = [invoked EXCEPT ![t] = FALSE]
    /\ UNCHANGED <<volume, inp, out, sysdef, file, disk, lockTable, locked, container>>

\* Session.execute is called (the session's log stays within MaxLog entries)
StartExecute(t) ==
    /\ Len(file.log_entries) + PendingAppends < MaxLog
    /\ Begin(t, "precheck")

\* put_session_parameter, post_session_parameter or delete_session_parameter
StartMutate(t) == Begin(t, "mutate")

\* post_session_stop
StartStop(t) == Begin(t, "stop")

\* get_session_state
StartStatus(t) == Begin(t, "status")

\* Session.execute, line 194: the precondition check and the test of the
\* command name (line 203)
Precheck(t) ==
    /\ pc[t] = "precheck"
    /\ \E r \in ExecuteRequests :
        /\ r.async => pc[WorkerOf(t)] \in {"idle", "done"}
        /\ op' = [op EXCEPT ![t] = r]
        /\ Close(sess[t])
        /\ IF ReleaseFails THEN Done(t, "RuntimeError")
           ELSE IF ExecutePreconditionFails(sess[t].state, r.cmd, has_build)
           THEN Done(t, "UnexpectedSessionState")
           ELSE IF r.cmd \notin {"build", "run"} THEN Done(t, "ValueError")
           ELSE Reopen(t, "logappend") /\ UNCHANGED res
    /\ UNCHANGED <<volume, inp, out, sysdef, disk, lockTable, container, exc, invoked>>

\* lines 209-213 with the log assigned the new entry alone
LogAppendReplaces(t) ==
    /\ pc[t] = "logappend"
    /\ Close([sess[t] EXCEPT !.log_entries = <<StartEntry(op[t].cmd)>>])
    /\ IF ReleaseFails THEN Done(t, "RuntimeError")
       ELSE Reopen(t, IF op[t].async THEN "setstate" ELSE "sync_call") /\ UNCHANGED res
    /\ UNCHANGED <<volume, inp, out, sysdef, disk, lockTable, container, op, exc, invoked>>

\* lines 209-213: the log entry that shows the start of the command
LogAppend(t) ==
    /\ pc[t] = "logappend"
    /\ Close([sess[t] EXCEPT !.log_entries = Append(@, StartEntry(op[t].cmd))])
    /\ IF ReleaseFails THEN Done(t, "RuntimeError")
       ELSE Reopen(t, IF op[t].async THEN "setstate" ELSE "sync_call") /\ UNCHANGED res
    /\ UNCHANGED <<volume, inp, out, sysdef, disk, lockTable, container, op, exc, invoked>>

\* lines 216-217: an asynchronous execute sets BUILDING / RUNNING
SetState(t) ==
    /\ pc[t] = "setstate"
    /\ Close([sess[t] EXCEPT !.state = InitialStateOf(op[t].cmd)])
    /\ IF ReleaseFails THEN Done(t, "RuntimeError")
       ELSE /\ pc' = [pc EXCEPT ![t] = "spawn"]
            /\ sess' = [sess EXCEPT ![t] = NoSession]
            /\ look' = [look EXCEPT ![t] = NoThread]
            /\ UNCHANGED <<res, nxt>>
    /\ UNCHANGED <<volume, inp, out, sysdef, disk, lockTable, container, op, exc, invoked>>

\* lines 218-221: start the thread and return the acknowledgement
Spawn(t) ==
    /\ pc[t] = "spawn"
    /\ LET w == WorkerOf(t) IN
        /\ pc' = [pc EXCEPT ![t] = "done", ![w] = IF TableSettled THEN "w_call" ELSE "lookup"]
        /\ res' = [res EXCEPT ![t] = "started", ![w] = "pending"]
        /\ nxt' = [nxt EXCEPT ![t] = "-", ![w] = "w_call"]
        /\ look' = [look EXCEPT ![w] = IF TableSettled THEN lockTable ELSE NoThread]
        /\ sess' = [sess EXCEPT ![w] = IF TableSettled THEN file ELSE NoSession]
        /\ op' = [op EXCEPT ![w] = [op[t] EXCEPT !.kind = "worker"]]
        /\ exc' = [exc EXCEPT ![w] = "-"]
        /\ invoked' = [invoked EXCEPT ![w] = FALSE]
    /\ UNCHANGED <<volume, inp, out, sysdef, file, disk, lockTable, locked, container>>

\* System.execute up to the start of the command: staging of the input files
\* (__get_file_copy_list), in the environment env ("ok", or "HTTPError": a
\* download fails)
SystemExecuteStart(s, command, env, d) ==
    LET r == StageGroups(s, StagedGroups(command), env, d)
    IN  [err |-> r.err, sess |-> r.sess, disk |-> r.disk, invoked |-> r.err = ""]

\* Session.execute, lines 225-237, once System.execute returned `text` or
\* raised an exception whose str() is `text`: [res, sess]
SyncFinish(s, command, raised, text) ==
    IF s.log_entries = <<>>
    THEN [res |-> "IndexError", sess |-> [s EXCEPT !.state = FailureStateOf(command)]]
    ELSE IF raised
    THEN [res |-> "UnexpectedSessionState",
          sess |-> [s EXCEPT !.state = FailureStateOf(command),
                             !.log_entries = AppendToLast(@, text)]]
    ELSE [res |-> "ok",
          sess |-> [s EXCEPT !.state = SuccessStateOf(command),
                             !.log_entries = AppendToLast(@, IF text = "" THEN NoOutput ELSE text)]]

\* the with-block of lines 224-237 is left, System.execute having returned
\* or raised `text`
SyncEnd(t, s, raised, text) ==
    LET fin == SyncFinish(s, op[t].cmd, raised, text) IN
    /\ Close(fin.sess)
    /\ Done(t, IF ReleaseFails THEN "RuntimeError" ELSE fin.res)
    /\ exc' = [exc EXCEPT ![t] = text]

\* lines 224-226: the synchronous call of System.execute, the session lock
\* held; a container of the session's name that exists already makes
\* ComputeDocker.__execute_container fail
SyncCall(t) ==
    /\ pc[t] = "sync_call"
    /\ \E env \in {"ok", "HTTPError"} :
        LET r == SystemExecuteStart(sess[t], op[t].cmd, env, disk) IN
        IF NoBackendCall(op[t].cmd)
        THEN /\ SyncEnd(t, sess[t], FALSE, "")
             /\ UNCHANGED <<disk, container, invoked>>
        ELSE /\ disk' = r.disk
             /\ invoked' = [invoked EXCEPT ![t] = r.invoked]
             /\ IF r.err # ""
                THEN SyncEnd(t, r.sess, TRUE, r.err) /\ UNCHANGED container
                ELSE IF container.owner # NoThread
                THEN SyncEnd(t, r.sess, TRUE, "ComputeError") /\ UNCHANGED container
                ELSE /\ container' = [owner |-> t, stopped |-> FALSE]
                     /\ sess' = [sess EXCEPT ![t] = r.sess]
                     /\ pc' = [pc EXCEPT ![t] = "sync_run"]
                     /\ UNCHANGED <<file, locked, res, look, nxt, exc>>
    /\ UNCHANGED <<volume, inp, out, sysdef, lockTable, op>>

\* the command ends: exit status 0 with its output, or a failure
\* (ComputeError); a stopped container never ends with status 0
SyncReturn(t) ==
    /\ pc[t] = "sync_run"
    /\ \E output \in {"", "out", "ComputeError"} :
        /\ container.stopped => output = "ComputeError"
        /\ IF output = "ComputeError"
           THEN SyncEnd(t, sess[t], TRUE, output)
           ELSE SyncEnd(t, MarkAvailable(sess[t], op[t].cmd), FALSE, output)
    /\ container' = [owner |-> NoThread, stopped |-> FALSE]
    /\ UNCHANGED <<volume, inp, out, sysdef, disk, lockTable, op, invoked>>

\* Session.__execute_async, lines 255-256: System.execute on the session a
\* read-only SessionsHandler loaded
WorkerCall(t) ==
    /\ pc[t] = "w_call"
    /\ \E env \in {"ok", "HTTPError"} :
        LET r == SystemExecuteStart(sess[t], op[t].cmd, env, disk) IN
        IF NoBackendCall(op[t].cmd)
        THEN /\ Reopen(t, "w_done")
             /\ exc' = [exc EXCEPT ![t] = ""]
             /\ UNCHANGED <<disk, container, invoked>>
        ELSE /\ disk' = r.disk
             /\ invoked' = [invoked EXCEPT ![t] = r.invoked]
             /\ IF r.err # ""
                THEN Reopen(t, "w_fail") /\ exc' = [exc EXCEPT ![t] = r.err]
                                         /\ UNCHANGED container
                ELSE IF container.owner # NoThread
                THEN Reopen(t, "w_fail") /\ exc' = [exc EXCEPT ![t] = "ComputeError"]
                                         /\ UNCHANGED container
                ELSE /\ container' = [owner |-> t, stopped |-> FALSE]
                     /\ sess' = [sess EXCEPT ![t] = r.sess]
                     /\ pc' = [pc EXCEPT ![t] = "w_run"]
                     /\ UNCHANGED <<look, nxt, exc>>
    /\ UNCHANGED <<volume, inp, out, sysdef, file, lockTable, locked, op, res>>

\* the command of a worker ends, __close_storage_file taking the branch of
\* line 483 for the read-only handler too: the session is written and the
\* lock released
WorkerReturnWrites(t) ==
    /\ pc[t] = "w_run"
    /\ \E output \in {"", "out", "ComputeError"} :
        /\ container.stopped => output = "ComputeError"
        /\ exc' = [exc EXCEPT ![t] = output]
        /\ Reopen(t, IF output = "ComputeError" THEN "w_fail" ELSE "w_done")
    /\ Close(sess[t])
    /\ container' = [owner |-> NoThread, stopped |-> FALSE]
    /\ UNCHANGED <<volume, inp, out, sysdef, disk, lockTable, op, res, invoked>>

\* the command of a worker ends; the read-only handler is left without a write
WorkerReturn(t) ==
    /\ pc[t] = "w_run"
    /\ \E output \in {"", "out", "ComputeError"} :
        /\ container.stopped => output = "ComputeError"
        /\ exc' = [exc EXCEPT ![t] = output]
        /\ Reopen(t, IF output = "ComputeError" THEN "w_fail" ELSE "w_done")
    /\ container' = [owner |-> NoThread, stopped |-> FALSE]
    /\ UNCHANGED <<volume, inp, out, sysdef, file, disk, lockTable, locked, op, res, invoked>>

\* ComputeDocker.__execute_container, lines 263-265: the container emits a
\* chunk of its log, and the progress callback write_to_log opens the session
\* (at most MaxChunks chunks are followed)
Emit(t) ==
    /\ pc[t] = "w_run"
    /\ container.owner = t
    /\ Len(out) < MaxChunks
    /\ \E chunk \in {"log"} :
        /\ out' = Append(out, chunk)
        /\ exc' = [exc EXCEPT ![t] = chunk]
    /\ Reopen(t, "w_log")
    /\ UNCHANGED <<volume, inp, sysdef, file, disk, lockTable, locked, container, op, res, invoked>>

\* write_to_log, lines 248-249: the chunk is appended to the last log entry
\* and the session is written.  An IndexError, or the RuntimeError of a failed
\* release (which __execute_container turns into ComputeError), ends
\* System.execute with the container left behind.
WriteToLog(t) ==
    /\ pc[t] = "w_log"
    /\ LET s == sess[t] IN
       IF s.log_entries = <<>>
       THEN /\ Close(s)
            /\ Reopen(t, "w_fail")
            /\ exc' = [exc EXCEPT ![t] = IF ReleaseFails THEN "ComputeError" ELSE "IndexError"]
       ELSE /\ Close([s EXCEPT !.log_entries = AppendToLast(@, exc[t])])
            /\ IF ReleaseFails
               THEN Reopen(t, "w_fail") /\ exc' = [exc EXCEPT ![t] = "ComputeError"]
               ELSE CallbackEnd(t) /\ UNCHANGED exc
    /\ UNCHANGED <<volume, inp, out, sysdef, disk, lockTable, container, op, res, invoked>>

\* lines 257-266: the final write after System.execute returned
WorkerDone(t) ==
    /\ pc[t] = "w_done"
    /\ LET s == sess[t]
           last == s.log_entries[Len(s.log_entries)].message
           text == IF exc[t] = "" THEN NoOutput ELSE exc[t]
       IN  IF s.log_entries = <<>>
           THEN /\ Close(s)
                /\ Reopen(t, "w_fail")
                /\ exc' = [exc EXCEPT ![t] = IF ReleaseFails THEN "RuntimeError" ELSE "IndexError"]
                /\ UNCHANGED <<op, res, invoked>>
           ELSE /\ Close([s EXCEPT !.state = SuccessStateOf(op[t].cmd),
                                   !.log_entries = IF last = StartMessage
                                                   THEN AppendToLast(@, text) ELSE @])
                /\ IF ReleaseFails
                   THEN Reopen(t, "w_fail") /\ exc' = [exc EXCEPT ![t] = "RuntimeError"]
                                            /\ UNCHANGED <<op, res, invoked>>
                   ELSE WorkerEnd(t)
    /\ UNCHANGED <<volume, inp, out, sysdef, disk, lockTable, container>>

\* lines 268-274: the except branch writes the failure, and the thread ends
\* (with an exception of its own when the log is empty or the release fails)
WorkerFail(t) ==
    /\ pc[t] = "w_fail"
    /\ LET s == sess[t] IN
       IF s.log_entries = <<>>
       THEN Close(s)
       ELSE Close([s EXCEPT !.state = FailureStateOf(op[t].cmd),
                            !.log_entries = AppendToLast(@, exc[t])])
    /\ WorkerEnd(t)
    /\ UNCHANGED <<volume, inp, out, sysdef, disk, lockTable, container>>

\* put / post / delete_session_parameter: Session.update, add or delete inside
\* the SessionsHandler; on LockedSessionError the endpoint goes on to read the
\* session state for its message
Mutate(t) ==
    /\ pc[t] = "mutate"
    /\ \E q \in MutateRequests, n \in ParamNames :
       \E v \in IF q.kind = "update" THEN UpdateValues ELSE {UploadName} :
        /\ q.kind = "update" => ~IsFileParam(n)
        /\ op' = [op EXCEPT ![t] = q]
        /\ LET r == CASE q.kind = "update" -> SessionUpdate(sess[t], q.group, n, v, disk)
                      [] q.kind = "add" -> SessionAdd(sess[t], q.group, n, v, disk)
                      [] OTHER -> SessionDelete(sess[t], q.group, n, disk)
           IN  /\ Close(r.sess)
               /\ disk' = r.disk
               /\ IF ReleaseFails THEN Done(t, "RuntimeError")
                  ELSE IF r.err = "LockedSessionError"
                  THEN Reopen(t, "errstatus") /\ res' = [res EXCEPT ![t] = r.err]
                  ELSE Done(t, IF r.err = "" THEN "ok" ELSE r.err)
    /\ UNCHANGED <<volume, inp, out, sysdef, lockTable, container, exc, invoked>>

\* get_session_state called from the endpoint's except branch
ErrStatus(t) ==
    /\ pc[t] = "errstatus"
    /\ Close(sess[t])
    /\ Done(t, IF ReleaseFails THEN "RuntimeError" ELSE res[t])
    /\ UNCHANGED <<volume, inp, out, sysdef, disk, lockTable, container, op, exc, invoked>>

\* post_session_stop without the test of the status (lines 323-324): the stop
\* is forwarded in every state
StopInAnyState(t) ==
    /\ pc[t] = "stop"
    /\ Close(sess[t])
    /\ IF container.owner # NoThread
       THEN /\ container' = [container EXCEPT !.stopped = TRUE]
            /\ Done(t, IF ReleaseFails THEN "RuntimeError" ELSE "ok")
       ELSE /\ UNCHANGED container
            /\ Done(t, IF ReleaseFails THEN "RuntimeError"
                       ELSE "ComputeResourceUnavailableError")
    /\ UNCHANGED <<volume, inp, out, sysdef, disk, lockTable, op, exc, invoked>>

\* post_session_stop: Session.stop -> ComputeDocker.stop_command when the
\* state is BUILDING or RUNNING, else HTTP 400
Stop(t) ==
    /\ pc[t] = "stop"
    /\ Close(sess[t])
    /\ IF sess[t].state \in {RUNNING, BUILDING}
       THEN IF container.owner # NoThread
            THEN /\ container' = [container EXCEPT !.stopped = TRUE]
                 /\ Done(t, IF ReleaseFails THEN "RuntimeError" ELSE "ok")
            ELSE /\ UNCHANGED container
                 /\ Done(t, IF ReleaseFails THEN "RuntimeError"
                            ELSE "ComputeResourceUnavailableError")
       ELSE /\ UNCHANGED container
            /\ Done(t, IF ReleaseFails THEN "RuntimeError" ELSE "HTTP400")
    /\ UNCHANGED <<volume, inp, out, sysdef, disk, lockTable, op, exc, invoked>>

\* get_session_state / get_session: open the session and close it again
Status(t) ==
    /\ pc[t] = "status"
    /\ Close(sess[t])
    /\ Done(t, IF ReleaseFails THEN "RuntimeError" ELSE "ok")
    /\ UNCHANGED <<volume, inp, out, sysdef, disk, lockTable, container, op, exc, invoked>>

\* ----------------------------------------------------------- specifications
\* entering SessionsHandler blocks, the parameter endpoints and the state query
Access(t) ==
    \/ StartMutate(t)
    \/ StartStatus(t)
    \/ Lookup(t)
    \/ Bind(t)
    \/ Acquire(t)
    \/ AcquireTimeout(t)
    \/ Mutate(t)
    \/ ErrStatus(t)
    \/ Status(t)

\* Session.execute, its worker thread, and stop
Step(t) ==
    \/ Access(t)
    \/ StartExecute(t)
    \/ StartStop(t)
    \/ Precheck(t)
    \/ LogAppend(t)
    \/ SetState(t)
    \/ Spawn(t)
    \/ SyncCall(t)
    \/ SyncReturn(t)
    \/ WorkerCall(t)
    \/ WorkerReturn(t)
    \/ WorkerDone(t)
    \/ WorkerFail(t)
    \/ Stop(t)

\* one caller and the worker its asynchronous executes start
Next == \E t \in {"c1", "w1"} : Step(t)
Spec == Init /\ [][Next]_vars

\* the same with the progress callback of the asynchronous executes
NextProgress ==
    \/ Next
    \/ Emit("w1")
    \/ WriteToLog("w1")
SpecProgress == Init /\ [][NextProgress]_vars

\* ---- the thread of an asynchronous build next to a second caller.  The
\* caller c1 has its acknowledgement (C5): the state is BUILDING, the start
\* entry is in the log, the lock of c1's opens is in the table, and the
\* thread w1 is about to enter its read-only SessionsHandler, here in a step
\* of its own; c2 asks for the session state again and again.
InitReadOnly ==
    /\ sysdef = [build_command |-> <<"str", "make">>,
                 group |-> [tracing |-> RUN, input |-> BUILD]]
    /\ \E cfg \in [tracing : {PyNone}, input : {PyNone, UrlOrigin}] :
        file = [NewSession(TRUE, cfg) EXCEPT !.state = BUILDING,
                                             !.log_entries = <<StartEntry("build")>>]
    /\ disk = {}
    /\ lockTable = "c1"
    /\ locked = {}
    /\ container = [owner |-> NoThread, stopped |-> FALSE]
    /\ volume = "created"
    /\ pc = [t \in Threads |-> CASE t = "c1" -> "done" [] t = "w1" -> "lookup" [] OTHER -> "idle"]
    /\ op = [t \in Threads |->
                CASE t = "c1" -> [kind |-> "execute", cmd |-> "build", async |-> TRUE, group |-> "-"]
                  [] t = "w1" -> [kind |-> "worker", cmd |-> "build", async |-> TRUE, group |-> "-"]
                  [] OTHER -> NoOp]
    /\ nxt = [t \in Threads |-> IF t = "w1" THEN "w_call" ELSE "-"]
    /\ look = [t \in Threads |-> NoThread]
    /\ sess = [t \in Threads |-> NoSession]
    /\ res = [t \in Threads |-> CASE t = "c1" -> "started" [] t = "w1" -> "pending" [] OTHER -> "none"]
    /\ exc = [t \in Threads |-> "-"]
    /\ invoked = [t \in Threads |-> FALSE]
    /\ inp = NoCall
    /\ out = NoCall

NextReadOnly ==
    \/ StartStatus("c2")
    \/ Status("c2")
    \/ Lookup("w1")
    \/ WorkerCall("w1")
    \/ WorkerReturn("w1")
    \/ WorkerDone("w1")
    \/ WorkerFail("w1")
    \/ \E t \in {"c2", "w1"} : Acquire(t)
    \/ \E t \in {"c2", "w1"} : AcquireTimeout(t)
SpecReadOnly == InitReadOnly /\ [][NextReadOnly]_vars

\* two callers racing on one session with parameter and state requests
InitConc == InitWith({[tracing |-> BUILD, input |-> RUN]}, Configurations)
NextConc == \E t \in Callers : Access(t)
SpecConc == InitConc /\ [][NextConc]_vars

\* ---- Session.get_result_availability on its own
\* the parameters results refer to, the values they can hold and the
\* enabled_by of a result: none, or up to MaxEnablers JSON pointers
EnablerParams == {<<COMMON, "verbose">>, <<BUILD, "tracing">>, <<RUN, "profile">>}
EnablerValues == {PyTrue, PyFalse, <<"str", "true">>}
Enablers == {<<"str", "#", k[1], k[2]>> : k \in EnablerParams}
EnablerLists ==
    {PyNone} \cup UNION {[1..n -> Enablers] : n \in 0..MaxEnablers}
\* System.get_parameter on the parameters of the definition
ParametersOf(values) ==
    [k \in ParameterGroup \X {"verbose", "tracing", "profile"} |->
        IF k \in EnablerParams THEN values[k] ELSE Absent]

InitAvail ==
    /\ Created({[tracing |-> BUILD, input |-> RUN]}, Configurations)
    /\ sysdef.build_command = <<"str", "make">>
    /\ inp \in [state : State, enabled_by : EnablerLists,
                 values : [EnablerParams -> EnablerValues]]
    /\ out = NoCall

CallAvailability ==
    /\ out = NoCall
    /\ out' = GetResultAvailability(inp.state, inp.enabled_by, ParametersOf(inp.values))
    /\ UNCHANGED <<volume, inp, sysdef, file, disk, lockTable, locked, container,
                   pc, op, nxt, look, sess, res, exc, invoked>>

NextAvail == CallAvailability
SpecAvail == InitAvail /\ [][NextAvail]_vars

\* ---- System.__parse_parameter_group on its own
\* the dicts of up to MaxEntries items over the keys and values
DictsOver(keys, values) ==
    {<<"dict", items>> : items \in
        {q \in UNION {[1..n -> keys \X values] : n \in 0..MaxEntries} :
            \A i, j \in 1..Len(q) : q[i][1] = q[j][1] => i = j}}

\* definition entries: a plain bool, a complex bool and a file parameter
SysdefValues ==
    {PyFalse,
     <<"SysDefCmplxParameter", PyFalse, PyNone>>,
     <<"SysDefCmplxParameter", <<"str", "default.bin">>, <<"SysDefParameterFile", PyTrue>>>>}
\* configuration entries: null, a bool, a path and a URL with credentials
SyscfgValues ==
    {PyNone, PyTrue, LocalOrigin, <<"SysCfgUrlParameter", UrlOrigin, <<"str", "token">>>>}

InitResolve ==
    /\ Created({[tracing |-> BUILD, input |-> RUN]}, Configurations)
    /\ sysdef.build_command = <<"str", "make">>
    /\ inp \in [sysdef_parameters : {PyNone} \cup DictsOver({"tracing", "input"}, SysdefValues),
                 syscfg_parameters : {PyNone} \cup DictsOver({"tracing", "input", "extra"},
                                                            SyscfgValues)]
    /\ out = NoCall

CallParseParameterGroup ==
    /\ out = NoCall
    /\ out' = ParseParameterGroup(inp.sysdef_parameters, inp.syscfg_parameters)
    /\ UNCHANGED <<volume, inp, sysdef, file, disk, lockTable, locked, container,
                   pc, op, nxt, look, sess, res, exc, invoked>>

NextResolve == CallParseParameterGroup
SpecResolve == InitResolve /\ [][NextResolve]_vars

\* ---- the parameters of a session, used through System and Parameter
\* definitions with the file parameter in each group, configurations that
\* leave it alone or give it a URL, a local file or another string as origin
FileDefinitions == {[tracing |-> BUILD, input |-> g] : g \in ParameterGroup}
FileConfigurations == [tracing : {PyNone}, input : {PyNone, UrlOrigin, LocalOrigin, OtherOrigin}]

InitFiles ==
    /\ Created(FileDefinitions, FileConfigurations)
    /\ sysdef.build_command = <<"str", "make">>
    /\ inp = NoCall
    /\ out = NoCall

\* what the last call was and how it ended ("" for a normal return)
Called(o, n, r) == [op |-> o, name |-> n, ret |-> r]

\* a call on the loaded session involves no other thread, lock or container
NoThreadActs ==
    UNCHANGED <<volume, sysdef, lockTable, locked, container,
                pc, op, nxt, look, sess, res, exc, invoked>>

\* Parameter.update_parameter(new_value) on the parameter n
CallUpdateParameter(n) ==
    \E v \in {PyTrue, <<"str", "off">>} :
        LET r == UpdateParameter(file.parameters[n], v) IN
        /\ file' = [file EXCEPT !.parameters[n] = r.param]
        /\ out' = Called("update_parameter", n, r.err)
        /\ UNCHANGED disk
        /\ inp' = NoCall
        /\ NoThreadActs

\* Parameter.process_input_file(session_id, group, file_name, file)
CallProcessInputFile(n) ==
    LET r == ProcessInputFile(file.parameters[n], sysdef.group[n], n, UploadName, disk) IN
    /\ file' = [file EXCEPT !.parameters[n] = r.param]
    /\ disk' = r.disk
    /\ out' = Called("process_input_file", n, r.err)
    /\ inp' = NoCall
    /\ NoThreadActs

\* Parameter.reset()
CallReset(n) ==
    LET r == Reset(file.parameters[n], n, disk) IN
    /\ file' = [file EXCEPT !.parameters[n] = r.param]
    /\ disk' = r.disk
    /\ out' = Called("reset", n, "")
    /\ inp' = NoCall
    /\ NoThreadActs

\* how the downloads of System.execute's staging can end
Downloads == {"ok", "HTTPError", "URLError"}

\* System.execute marking the files although the backend raised
CallSystemExecuteMarksOnFailure(command) ==
    \E env \in Downloads, output \in {"out", "ComputeError"} :
        LET r == SystemExecuteStart(file, command, env, disk) IN
        /\ disk' = r.disk
        /\ inp' = [env |-> env, output |-> output]
        /\ NoThreadActs
        /\ IF r.err # ""
           THEN file' = r.sess /\ out' = Called("execute", command, r.err)
           ELSE /\ file' = MarkAvailable(r.sess, command)
                /\ out' = Called("execute", command,
                                 IF output = "ComputeError" THEN output ELSE "")

\* System.execute(command): the files are staged, the backend builds or runs
\* (downloads work or not, the command ends with exit status 0 or not), and
\* after a normal return of the backend the files are marked
CallSystemExecute(command) ==
    \E env \in Downloads, output \in {"out", "ComputeError"} :
        LET r == SystemExecuteStart(file, command, env, disk) IN
        /\ inp' = [env |-> env, output |-> output]
        /\ NoThreadActs
        /\ IF NoBackendCall(command)
           THEN UNCHANGED <<file, disk>> /\ out' = Called("execute", command, "")
           ELSE IF r.err # ""
           THEN disk' = r.disk /\ file' = r.sess /\ out' = Called("execute", command, r.err)
           ELSE IF output = "ComputeError"
           THEN disk' = r.disk /\ file' = r.sess /\ out' = Called("execute", command, output)
           ELSE /\ disk' = r.disk
                /\ file' = MarkAvailable(r.sess, command)
                /\ out' = Called("execute", command, "")

NextFiles ==
    \/ \E n \in ParamNames : CallUpdateParameter(n)
    \/ \E n \in ParamNames : CallProcessInputFile(n)
    \/ \E n \in ParamNames : CallReset(n)
    \/ \E command \in {"build", "run"} : CallSystemExecute(command)
SpecFiles == InitFiles /\ [][NextFiles]_vars

\* ---- a session used through the Python API: synchronous Session.execute,
\* Session.update and Session.get_result_availability, one call at a time.
\* The definition has the boolean build parameter tracing (default false),
\* which enables the result trace.vcd, and a file parameter of the run group.
TraceResult == <<"str", "trace.vcd">>
TraceEnabledBy == << <<"str", "#", BUILD, "tracing">> >>
TraceConfigurations == [tracing : {PyNone, PyTrue}, input : {PyNone, UrlOrigin}]

InitTrace ==
    /\ Created({[tracing |-> BUILD, input |-> RUN]}, TraceConfigurations)
    /\ sysdef.build_command = <<"str", "make">>
    /\ inp = NoCall
    /\ out = NoCall

\* System.get_parameter for every group and name: the value of the parameter
\* found, Absent where it returns None
SessionParameters(s) ==
    [k \in ParameterGroup \X ParamNames |->
        IF sysdef.group[k[2]] = k[1] THEN s.parameters[k[2]].value ELSE Absent]

\* Session.execute(session_id, command) with async_call False, in the
\* environment env, the command's container ending with `output`
ApiExecute(command) ==
    /\ Len(file.log_entries) < MaxLog
    /\ \E env \in {"ok", "HTTPError"}, output \in {"", "out", "ComputeError"} :
        LET started == [file EXCEPT !.log_entries = Append(@, StartEntry(command))]
            r == SystemExecuteStart(started, command, env, disk)
            fin == IF NoBackendCall(command) THEN SyncFinish(started, command, FALSE, "")
                   ELSE IF r.err # "" THEN SyncFinish(r.sess, command, TRUE, r.err)
                   ELSE IF output = "ComputeError" THEN SyncFinish(r.sess, command, TRUE, output)
                   ELSE SyncFinish(MarkAvailable(r.sess, command), command, FALSE, output)
        IN  /\ inp' = [env |-> env, output |-> output]
            /\ IF ExecutePreconditionFails(file.state, command, has_build)
               THEN /\ UNCHANGED <<file, disk>>
                    /\ out' = Called("execute", command, "UnexpectedSessionState")
               ELSE /\ file' = fin.sess
                    /\ disk' = IF NoBackendCall(command) THEN disk ELSE r.disk
                    /\ out' = Called("execute", command, fin.res)
    /\ UNCHANGED <<volume, sysdef, lockTable, locked, container, pc, op, nxt, look, sess, res, exc, invoked>>

\* Session.update(session_id, group, "tracing", value)
ApiUpdate ==
    \E v \in {PyTrue, PyFalse} :
        LET r == SessionUpdate(file, sysdef.group.tracing, "tracing", v, disk) IN
        /\ file' = r.sess
        /\ disk' = r.disk
        /\ inp' = NoCall
        /\ out' = Called("update", "tracing", r.err)
        /\ UNCHANGED <<volume, sysdef, lockTable, locked, container, pc, op, nxt, look, sess, res, exc, invoked>>

\* Session.add(session_id, group, n, "up.bin", content)
ApiAdd(n) ==
    LET r == SessionAdd(file, sysdef.group[n], n, UploadName, disk) IN
    /\ file' = r.sess
    /\ disk' = r.disk
    /\ inp' = NoCall
    /\ out' = Called("add", n, r.err)
    /\ UNCHANGED <<volume, sysdef, lockTable, locked, container, pc, op, nxt, look, sess, res, exc, invoked>>

\* session.get_result_availability("trace.vcd") on the opened session
ApiResultAvailability ==
    /\ inp' = NoCall
    /\ out' = Called("get_result_availability", TraceResult,
                     GetResultAvailability(file.state, TraceEnabledBy, SessionParameters(file)))
    /\ UNCHANGED <<file, disk>>
    /\ UNCHANGED <<volume, sysdef, lockTable, locked, container, pc, op, nxt, look, sess, res, exc, invoked>>

NextTrace ==
    \/ \E command \in {"build", "run"} : ApiExecute(command)
    \/ ApiUpdate
    \/ \E n \in ParamNames : ApiAdd(n)
    \/ ApiResultAvailability
SpecTrace == InitTrace /\ [][NextTrace]_vars

\* ---- SessionsHandler.remove_session -> Session.remove -> System.remove ->
\* ComputeDocker.remove_resource, step by step in the thread c1, for a session
\* that nothing else has open.  inp holds the delete command of the
\* definition; a command of the session may still run in its container.
DeleteCommands == {PyNone, <<"str">>, <<"str", "cleanup">>}

InitRemove ==
    /\ Created(Definitions, Configurations)
    /\ inp \in [delete_command : DeleteCommands]
    /\ out = NoCall

\* the frame of a step of remove_session
RemoveFrame == UNCHANGED <<sysdef, locked, op, nxt, look, sess, invoked, inp, out>>

\* a command started before the removal runs in the session's container
CommandRuns ==
    /\ pc["c1"] = "idle"
    /\ container.owner = NoThread
    /\ container' = [owner |-> "w1", stopped |-> FALSE]
    /\ UNCHANGED <<file, disk, lockTable, volume, pc, res, exc>>
    /\ RemoveFrame

\* session.py lines 502-504: the session is opened and the removal approved
RemoveOpen ==
    /\ pc["c1"] = "idle"
    /\ pc' = [pc EXCEPT !["c1"] = "rm_kill"]
    /\ res' = [res EXCEPT !["c1"] = "pending"]
    /\ lockTable' = "c1"
    /\ UNCHANGED <<file, disk, container, volume, exc>>
    /\ RemoveFrame

\* the exception is on its way to the finally block of remove_session
RemoveRaises(e) ==
    /\ pc' = [pc EXCEPT !["c1"] = "rm_finally"]
    /\ exc' = [exc EXCEPT !["c1"] = e]

\* compute_docker.py lines 111-115: the containers that use the volume are
\* killed and removed, unless the Docker API fails
KillContainers ==
    /\ pc["c1"] = "rm_kill"
    /\ \E api \in {"ok", "APIError"} :
        IF api = "ok"
        THEN /\ container' = [owner |-> NoThread, stopped |-> FALSE]
             /\ pc' = [pc EXCEPT !["c1"] = "rm_delete"]
             /\ UNCHANGED exc
        ELSE /\ RemoveRaises("ComputeResourceUnavailableError")
             /\ UNCHANGED container
    /\ UNCHANGED <<file, disk, lockTable, volume, res>>
    /\ RemoveFrame

\* lines 116-118: the delete command, if the definition has one, runs in a
\* container of its own for at most 10 seconds; a failure or the timeout
\* leaves __execute_container as ComputeError, which line 121 does not catch
DeleteCommand ==
    /\ pc["c1"] = "rm_delete"
    /\ IF inp.delete_command = PyNone \/ Len(Tail(inp.delete_command)) = 0
       THEN pc' = [pc EXCEPT !["c1"] = "rm_volume"] /\ UNCHANGED exc
       ELSE \E output \in {"out", "ComputeError"} :
                IF output = "ComputeError"
                THEN RemoveRaises("ComputeError")
                ELSE pc' = [pc EXCEPT !["c1"] = "rm_volume"] /\ UNCHANGED exc
    /\ UNCHANGED <<file, disk, lockTable, container, volume, res>>
    /\ RemoveFrame

\* line 119: the volume is removed, unless the Docker API fails
RemoveVolume ==
    /\ pc["c1"] = "rm_volume"
    /\ \E api \in {"ok", "APIError"} :
        IF api = "ok"
        THEN volume' = "removed" /\ RemoveRaises("")
        ELSE UNCHANGED volume /\ RemoveRaises("ComputeResourceUnavailableError")
    /\ UNCHANGED <<file, disk, lockTable, container, res>>
    /\ RemoveFrame

\* session.py lines 505-515: ComputeResourceUnavailableError becomes
\* InvalidSessionError, and the finally block of an approved removal deletes
\* the lock and the session directory, whether Session.remove raised or not
RemoveFinally ==
    /\ pc["c1"] = "rm_finally"
    /\ lockTable' = NoThread
    /\ file' = NoSession
    /\ disk' = {}
    /\ pc' = [pc EXCEPT !["c1"] = "done"]
    /\ res' = [res EXCEPT !["c1"] =
                 CASE exc["c1"] = "" -> "ok"
                   [] exc["c1"] = "ComputeResourceUnavailableError" -> "InvalidSessionError"
                   [] OTHER -> exc["c1"]]
    /\ UNCHANGED <<container, volume, exc>>
    /\ RemoveFrame

NextRemove ==
    \/ CommandRuns
    \/ RemoveOpen
    \/ KillContainers
    \/ DeleteCommand
    \/ RemoveVolume
    \/ RemoveFinally
SpecRemove == InitRemove /\ [][NextRemove]_vars

\* ---- ComputeDocker.__copy_files towards the container, on its own
\* a ComputeFile: whether its source is a regular file, and its destination
\* path as the sequence of its components
RepoFile(path) == [is_file |-> TRUE, destination_path |-> path]
RepoDir(path) == [is_file |-> FALSE, destination_path |-> path]
\* os.path.dirname of a path
Dirname(path) == SubSeq(path, 1, Len(path) - 1)

\* what pathlib's rglob('*') finds in a cloned repository: the files README
\* and src/a, src/b, and the directories src and docs
RepoEntries ==
    {RepoFile(<<"repository", "README">>), RepoDir(<<"repository", "src">>),
     RepoFile(<<"repository", "src", "a">>), RepoFile(<<"repository", "src", "b">>),
     RepoDir(<<"repository", "docs">>)}
\* the staged files of a build or run: one file per parameter directory
StagedEntries ==
    {RepoFile(<<"inputs", "common", "input", "f">>),
     RepoFile(<<"inputs", "build", "input", "f">>),
     RepoFile(<<"inputs", "syscfg.json">>)}

\* the lists of up to MaxBatch distinct entries
ListsOver(entries) ==
    {q \in UNION {[1..n -> entries] : n \in 0..MaxBatch} :
        \A i, j \in 1..Len(q) : q[i] = q[j] => i = j}
\* system.py lines 313-321: rglob lists every entry of the clone, so a listed
\* file below src comes with the directory src
RepoLists ==
    {q \in ListsOver(RepoEntries) :
        \A i \in 1..Len(q) :
            RepoDir(Dirname(q[i].destination_path)) \in RepoEntries
                => \E j \in 1..Len(q) : q[j] = RepoDir(Dirname(q[i].destination_path))}
\* system.py lines 581-610: the staged files, the generated syscfg.json last
StagedLists ==
    {q \in ListsOver(StagedEntries) :
        /\ Len(q) > 0
        /\ \A i \in 1..Len(q) :
            q[i] = RepoFile(<<"inputs", "syscfg.json">>) <=> i = Len(q)}

\* compute_docker.py lines 191-208: the arcnames added to the tar file, in
\* order, after the files from position i on
RECURSIVE TarFile(_, _, _, _)
TarFile(files, i, archive, added_directories) ==
    IF i > Len(files) THEN archive
    ELSE LET f == files[i]
             dir == Dirname(f.destination_path)
             parent == f.is_file /\ dir \notin added_directories
         IN  TarFile(files, i + 1,
                     (IF parent THEN Append(archive, dir) ELSE archive)
                         \o <<f.destination_path>>,
                     IF parent THEN added_directories \cup {dir}
                     ELSE added_directories)

CopyFiles(files) == TarFile(files, 1, <<>>, {})

InitCopy ==
    /\ Created({[tracing |-> BUILD, input |-> RUN]}, Configurations)
    /\ sysdef.build_command = <<"str", "make">>
    /\ inp \in [files : RepoLists \cup StagedLists]
    /\ out = NoCall

CallCopyFiles ==
    /\ out = NoCall
    /\ out' = [archive |-> CopyFiles(inp.files)]
    /\ UNCHANGED <<volume, inp, sysdef, file, disk, lockTable, locked, container,
                   pc, op, nxt, look, sess, res, exc, invoked>>

NextCopy == CallCopyFiles
SpecCopy == InitCopy /\ [][NextCopy]_vars

\* ---- two callers that call Session.execute on one session of a definition
\* with build command, each with the thread its asynchronous executes start
InitRace ==
    /\ InitWith({[tracing |-> BUILD, input |-> RUN]}, Configurations)
    /\ sysdef.build_command = <<"str", "make">>
\* each caller calls execute once
NextRace ==
    \E t \in Threads :
        \/ pc[t] = "idle" /\ StartExecute(t)
        \/ Lookup(t)
        \/ Bind(t)
        \/ Acquire(t)
        \/ AcquireTimeout(t)
        \/ Precheck(t)
        \/ LogAppend(t)
        \/ SetState(t)
        \/ Spawn(t)
        \/ SyncCall(t)
        \/ SyncReturn(t)
        \/ WorkerCall(t)
        \/ WorkerReturn(t)
        \/ WorkerDone(t)
        \/ WorkerFail(t)
SpecRace == InitRace /\ [][NextRace]_vars

\* ---- the with-blocks of SessionsHandler on their own: two callers ask for
\* the session (get_session), the session is removed with force, and the
\* Docker volume of the session may disappear from the Docker daemon
InitOpen ==
    /\ InitWith({[tracing |-> BUILD, input |-> RUN]}, Configurations)
    /\ sysdef.build_command = <<"str", "make">>

\* line 440 acquires the lock, then line 451, 472 or 476 raises
\* InvalidSessionError: __enter__ is left by the exception, and __exit__,
\* which would release the lock, is not called
OpenFails(t) ==
    /\ pc[t] = "acquire"
    /\ look[t] \notin locked
    /\ ~Loadable
    /\ locked' = locked \cup {look[t]}
    /\ Done(t, "InvalidSessionError")
    /\ UNCHANGED <<volume, inp, out, sysdef, file, disk, lockTable, container, op, exc, invoked>>

\* __close_storage_file, lines 486-489: the session file is gone, and
\* InvalidSessionError is raised before the lock is released (line 496)
CloseFails(t) ==
    /\ pc[t] = "status"
    /\ ~SessionFileFound
    /\ Done(t, "InvalidSessionError")
    /\ UNCHANGED <<volume, inp, out, sysdef, file, disk, lockTable, locked, container, op, exc,
                   invoked>>

\* remove_session(session_id, force=True) by a caller that is not in a
\* request: the open is read-only and takes no lock (line 503), the volume is
\* removed unless the Docker API fails, and the finally block deletes the
\* table entry and the session directory (lines 508-515)
ForcedRemove(t) ==
    /\ pc[t] \in {"idle", "done"}
    /\ lockTable # NoThread
    /\ Loadable
    /\ \E api \in {"ok", "APIError"} :
        volume' = IF api = "ok" THEN "removed" ELSE volume
    /\ lockTable' = NoThread
    /\ file' = NoSession
    /\ disk' = {}
    /\ UNCHANGED <<inp, out, sysdef, locked, container, pc, op, nxt, look, sess, res, exc,
                   invoked>>

\* the volume of the session is removed from the Docker daemon by someone else
VolumeLost ==
    /\ volume = "created"
    /\ SessionFileFound
    /\ volume' = "removed"
    /\ UNCHANGED <<inp, out, sysdef, file, disk, lockTable, locked, container, pc, op, nxt,
                   look, sess, res, exc, invoked>>

NextOpen ==
    \/ \E t \in Callers :
        \/ StartStatus(t)
        \/ Lookup(t)
        \/ Bind(t)
        \/ Acquire(t)
        \/ AcquireTimeout(t)
        \/ OpenFails(t)
        \/ Status(t)
        \/ CloseFails(t)
        \/ ForcedRemove(t)
    \/ VolumeLost
SpecOpen == InitOpen /\ [][NextOpen]_vars

\* ---- Session.execute in both modes on a session no other caller touches
\* lines 209-213 and 224-237: the synchronous execute of an accepted command,
\* in the environment env, the command's container ending with `output`:
\* [res, sess, disk]
ExecuteSync(s, d, command, env, output) ==
    LET started == [s EXCEPT !.log_entries = Append(@, StartEntry(command))]
        r == SystemExecuteStart(started, command, env, d)
        fin == IF NoBackendCall(command) THEN SyncFinish(started, command, FALSE, "")
               ELSE IF r.err # "" THEN SyncFinish(r.sess, command, TRUE, r.err)
               ELSE IF output = "ComputeError" THEN SyncFinish(r.sess, command, TRUE, output)
               ELSE SyncFinish(MarkAvailable(r.sess, command), command, FALSE, output)
    IN  [res |-> fin.res, sess |-> fin.sess,
         disk |-> IF NoBackendCall(command) THEN d ELSE r.disk]

\* lines 209-221 and 241-274: the asynchronous execute up to the end of its
\* thread.  System.execute works on the session that the read-only handler
\* loaded, which is not written; the last handler loads the snapshot again
\* and writes the log and the state.
ExecuteAsync(s, d, command, env, output) ==
    LET started == [s EXCEPT !.log_entries = Append(@, StartEntry(command)),
                             !.state = InitialStateOf(command)]
        r == SystemExecuteStart(started, command, env, d)
        text == IF NoBackendCall(command) THEN ""
                ELSE IF r.err # "" THEN r.err ELSE output
        raised == ~NoBackendCall(command) /\ (r.err # "" \/ output = "ComputeError")
    IN  [res |-> "started",
         sess |-> IF raised
                  THEN [started EXCEPT !.state = FailureStateOf(command),
                                       !.log_entries = AppendToLast(@, text)]
                  ELSE [started EXCEPT !.state = SuccessStateOf(command),
                                       !.log_entries =
                                           AppendToLast(@, IF text = "" THEN NoOutput ELSE text)],
         disk |-> IF NoBackendCall(command) THEN d ELSE r.disk]

InitModes ==
    /\ Created(FileDefinitions, FileConfigurations)
    /\ inp = NoCall
    /\ out = NoCall

\* Session.execute(session_id, command, async_call), followed to the end of
\* the command
CallExecute(command) ==
    /\ Len(file.log_entries) < MaxLog
    /\ \E async \in BOOLEAN, env \in {"ok", "HTTPError"}, output \in {"", "out", "ComputeError"} :
        LET r == IF async THEN ExecuteAsync(file, disk, command, env, output)
                 ELSE ExecuteSync(file, disk, command, env, output)
        IN  /\ inp' = [async |-> async, env |-> env, output |-> output]
            /\ IF ExecutePreconditionFails(file.state, command, has_build)
               THEN /\ UNCHANGED <<file, disk>>
                    /\ out' = Called("execute", command, "UnexpectedSessionState")
               ELSE /\ file' = r.sess
                    /\ disk' = r.disk
                    /\ out' = Called("execute", command, r.res)
    /\ UNCHANGED <<volume, sysdef, lockTable, locked, container, pc, op, nxt, look, sess, res, exc, invoked>>

NextModes ==
    \/ \E command \in {"build", "run"} : CallExecute(command)
    \/ \E n \in ParamNames : ApiAdd(n)
SpecModes == InitModes /\ [][NextModes]_vars

\* ---- one parameter with a constraint, from its resolution on
\* a SysDefParameterEnum is <<"SysDefParameterEnum", values>>, a
\* SysDefParameterRange <<"SysDefParameterRange", lower, upper>>; an int is
\* <<"int", digits>>
IsNum(v) == v[1] = "int"
Num(v) ==
    CASE v[2] = "0" -> 0 [] v[2] = "5" -> 5 [] v[2] = "7" -> 7 [] v[2] = "9" -> 9
      [] v[2] = "50" -> 50
IsEnumMeta(v) == v[1] = "SysDefParameterEnum"
IsRangeMeta(v) == v[1] = "SysDefParameterRange"

\* SysDefCmplxParameter.check_default_value: whether the definition entry is
\* accepted when the SysDef is parsed
CheckDefaultValue(v) ==
    IF ~IsCmplx(v) THEN TRUE
    ELSE IF IsEnumMeta(v[3]) THEN v[2] \in v[3][2]
    ELSE IF IsRangeMeta(v[3])
    THEN IsNum(v[2]) /\ Num(v[3][2]) <= Num(v[2]) /\ Num(v[2]) <= Num(v[3][3])
    ELSE IF IsFileMeta(v[3]) THEN IsStr(v[2])
    ELSE TRUE

\* definition entries: an enum and a range parameter, a complex and a plain
\* boolean, and an enum entry whose default is not among its values
ConstrainedEntries ==
    {<<"SysDefCmplxParameter", <<"str", "fast">>,
       <<"SysDefParameterEnum", {<<"str", "fast">>, <<"str", "slow">>}>>>>,
     <<"SysDefCmplxParameter", <<"str", "turbo">>,
       <<"SysDefParameterEnum", {<<"str", "fast">>, <<"str", "slow">>}>>>>,
     <<"SysDefCmplxParameter", <<"int", "5">>,
       <<"SysDefParameterRange", <<"int", "0">>, <<"int", "9">>>>>>,
     <<"SysDefCmplxParameter", PyFalse, PyNone>>,
     PyFalse}
\* the values a configuration or an update request gives the parameter
RequestValues ==
    {PyTrue, <<"str", "true">>, <<"str", "slow">>, <<"str", "turbo">>,
     <<"int", "7">>, <<"int", "50">>}

\* the session is created: the definition entry passed check_default_value,
\* and System.__parse_parameter_group (lines 203-210) made the Parameter from
\* it and from the configuration's value, if there is one
InitConstraint ==
    /\ Created({[tracing |-> BUILD, input |-> RUN]}, Configurations)
    /\ sysdef.build_command = <<"str", "make">>
    /\ inp \in [sysdef_param_value : {v \in ConstrainedEntries : CheckDefaultValue(v)},
                 syscfg_value : {PyNone} \cup RequestValues]
    /\ out = ParameterInit("mode",
                           IF IsNone(inp.syscfg_value) THEN inp.sysdef_param_value
                           ELSE inp.syscfg_value,
                           inp.sysdef_param_value, ~IsNone(inp.syscfg_value))

\* Parameter.update_parameter(new_value)
CallUpdate ==
    /\ \E new_value \in RequestValues : out' = UpdateParameter(out, new_value).param
    /\ UNCHANGED <<volume, inp, sysdef, file, disk, lockTable, locked, container,
                   pc, op, nxt, look, sess, res, exc, invoked>>

\* Parameter.reset() of a parameter that is no file (parameters.py lines
\* 166-168)
CallResetValue ==
    /\ out' = [out EXCEPT !.value = out.default_value]
    /\ UNCHANGED <<volume, inp, sysdef, file, disk, lockTable, locked, container,
                   pc, op, nxt, look, sess, res, exc, invoked>>

NextConstraint == CallUpdate \/ CallResetValue
SpecConstraint == InitConstraint /\ [][NextConstraint]_vars

\* ------------------------------------------------------------------ claims
\* a step of thread t that leaves the position `label`
Leaves(t, label) == pc[t] = label /\ pc'[t] # label

\* the request of t ended with the exception e, nothing persisted changed and
\* no build or run command was started for it
RejectedWith(t, e) ==
    /\ pc'[t] = "done"
    /\ res'[t] = e
    /\ file' = file
    /\ disk' = disk
    /\ container' = container
    /\ ~invoked'[t]
    /\ pc'[WorkerOf(t)] = pc[WorkerOf(t)]

\* C1: an execute of build or run that finds the persisted state BUILDING or
\* RUNNING raises UnexpectedSessionState, appends no log entry, leaves the
\* state as it is and never calls the backend.
C1_BusyExecuteRejected ==
    [][\A t \in Callers :
        (Leaves(t, "precheck") /\ op'[t].cmd \in {"build", "run"}
            /\ file.state \in {BUILDING, RUNNING})
        => RejectedWith(t, "UnexpectedSessionState")]_vars

C1_Witness ==
    \E t \in Callers :
        /\ pc[t] = "done" /\ res[t] = "UnexpectedSessionState"
        /\ op[t].cmd \in {"build", "run"}
        /\ file.state \in {BUILDING, RUNNING}
        /\ pc[WorkerOf(t)] = "w_run"

\* C2: in a system with a build command, run is accepted in BUILT, RAN and
\* FAILED_RUN only; in CREATED and FAILED_BUILD it raises
\* UnexpectedSessionState, the state stays, no log entry is appended and no
\* run is started.
C2_RunNeedsBuild ==
    [][\A t \in Callers :
        (Leaves(t, "precheck") /\ op'[t].cmd = "run"
            /\ sysdef.build_command = <<"str", "make">>)
        => /\ file.state \in {BUILT, RAN, FAILED_RUN}
                => (nxt'[t] = "logappend" /\ res'[t] = "pending")
           /\ file.state \in {CREATED, FAILED_BUILD}
                => RejectedWith(t, "UnexpectedSessionState")
           /\ nxt'[t] = "logappend" => file.state \in {BUILT, RAN, FAILED_RUN}]_vars

C2_Witness ==
    \E t \in Callers :
        /\ sysdef.build_command = <<"str", "make">>
        /\ pc[t] = "done" /\ res[t] = "UnexpectedSessionState"
        /\ op[t].cmd = "run"
        /\ file.state = FAILED_BUILD

\* the definition's build command is absent or empty
NoBuildCommand == sysdef.build_command \in {PyNone, <<"str">>}

\* C3: a session of a definition without build command (absent or empty)
\* starts in BUILT; execute(run) is accepted as its first operation (and
\* whenever no command is under way), and the write that follows a zero-exit
\* run command sets RAN.
C3_NoBuildStartsBuilt ==
    /\ NoBuildCommand => file.state = BUILT
    /\ [][NoBuildCommand =>
            \A t \in Threads :
                /\ (Leaves(t, "precheck") /\ op'[t].cmd = "run"
                        /\ file.state \notin {BUILDING, RUNNING})
                    => (nxt'[t] = "logappend" /\ res'[t] = "pending")
                /\ (Leaves(t, "sync_run") /\ op[t].cmd = "run" /\ exc'[t] \in {"", "out"})
                    => (file'.state = RAN /\ res'[t] = "ok")
                /\ (Leaves(t, "w_done") /\ op[t].cmd = "run")
                    => file'.state = RAN]_vars

C3_Witness ==
    \E t \in Callers :
        /\ sysdef.build_command = <<"str">>
        /\ pc[t] = "done" /\ res[t] = "ok" /\ exc[t] = "out"
        /\ op[t].cmd = "run"
        /\ Len(file.log_entries) = 1
        /\ file.state = RAN

\* the log `new` is the log `old` with `text` appended to the message of its
\* last entry
GrewBy(old, new, text) ==
    /\ old # <<>>
    /\ Len(new) = Len(old)
    /\ \A i \in 1..(Len(old) - 1) : new[i] = old[i]
    /\ new[Len(old)].producer = old[Len(old)].producer
    /\ new[Len(old)].message = Append(old[Len(old)].message, text)

\* C4: an accepted synchronous execute ends in one of two ways.  System.execute
\* returned: the persisted state is BUILT (build) or RAN (run) and the output
\* (the no-output notice for an empty one) is appended to the last log entry.
\* System.execute raised: the persisted state is FAILED_BUILD or FAILED_RUN,
\* the error text is appended to the last log entry and the caller gets
\* UnexpectedSessionState.
C4_SyncOutcome ==
    [][\A t \in Callers :
        (pc[t] \in {"sync_call", "sync_run"} /\ pc'[t] = "done")
        => IF exc'[t] \in {"", "out"}
           THEN /\ file'.state = (IF op[t].cmd = "build" THEN BUILT ELSE RAN)
                /\ res'[t] = "ok"
                /\ GrewBy(file.log_entries, file'.log_entries,
                          IF exc'[t] = "" THEN NoOutput ELSE exc'[t])
           ELSE /\ file'.state = (IF op[t].cmd = "build" THEN FAILED_BUILD ELSE FAILED_RUN)
                /\ res'[t] = "UnexpectedSessionState"
                /\ GrewBy(file.log_entries, file'.log_entries, exc'[t])]_vars

C4_Witness ==
    \E t \in Callers :
        /\ pc[t] = "done" /\ res[t] = "UnexpectedSessionState"
        /\ op[t].cmd = "run" /\ ~op[t].async /\ exc[t] = "ComputeError"
        /\ file.state = FAILED_RUN
        /\ Len(file.log_entries) = 2
        /\ file.log_entries[2].message = Append(StartMessage, "ComputeError")
        /\ file.log_entries[1].message = Append(StartMessage, "out")

\* C5: in an accepted asynchronous execute the persisted state is BUILDING
\* (build) or RUNNING (run) before the thread of the command is started and
\* before the caller has its acknowledgement; the caller has it while the
\* thread has not yet called the backend.
C5_AsyncStateFirst ==
    [][\A t \in Callers :
        /\ Leaves(t, "setstate")
            => /\ file'.state = (IF op[t].cmd = "build" THEN BUILDING ELSE RUNNING)
               /\ pc'[WorkerOf(t)] = "idle"
               /\ res'[t] = "pending"
        /\ Leaves(t, "spawn")
            => /\ file.state = (IF op[t].cmd = "build" THEN BUILDING ELSE RUNNING)
               /\ pc[WorkerOf(t)] = "idle"
               /\ pc'[WorkerOf(t)] \in {"lookup", "w_call"}
               /\ pc'[t] = "done" /\ res'[t] = "started"
               /\ ~invoked'[WorkerOf(t)]
               /\ container' = container /\ file' = file]_vars

C5_Witness ==
    \E t \in Callers :
        /\ pc[t] = "done" /\ res[t] = "started" /\ op[t].cmd = "run"
        /\ file.state = RUNNING
        /\ pc[WorkerOf(t)] = "w_call" /\ ~invoked[WorkerOf(t)]
        /\ container.owner = NoThread

\* C6: while the persisted state is BUILDING or RUNNING, an update, add or
\* delete of a parameter of the definition fails with LockedSessionError and
\* leaves the parameters, the files and the state as they are.
C6_MutationLockedWhileBusy ==
    [][\A t \in Callers :
        (Leaves(t, "mutate") /\ file.state \in {BUILDING, RUNNING}
            /\ res'[t] # "ValueError")
        => (res'[t] = "LockedSessionError" /\ file' = file /\ disk' = disk)]_vars

\* C7: a successful update, add or delete in the common or the build group
\* sets a state of BUILT, FAILED_BUILD, RAN or FAILED_RUN to CREATED when the
\* definition has a build command and to BUILT when it has none, and leaves
\* CREATED as it is.
C7_BuildMutationRegresses ==
    [][\A t \in Callers :
        (Leaves(t, "mutate") /\ res'[t] = "ok" /\ op'[t].group \in {COMMON, BUILD})
        => /\ file.state \in {BUILT, FAILED_BUILD, RAN, FAILED_RUN}
                => file'.state = (IF NoBuildCommand THEN BUILT ELSE CREATED)
           /\ file.state = CREATED => file'.state = CREATED]_vars

C7_Witness ==
    \E t \in Callers :
        /\ ~NoBuildCommand
        /\ pc[t] = "done" /\ res[t] = "ok"
        /\ op[t].kind = "add" /\ op[t].group = COMMON
        /\ Len(file.log_entries) = 1
        /\ file.log_entries[1].message = Append(StartMessage, "out")
        /\ file.state = CREATED
        /\ file.parameters["input"].file_data.file_state = STAGED

\* C8: a successful mutation in the run group sets RAN and FAILED_RUN to
\* BUILT and leaves CREATED, BUILT and FAILED_BUILD as they are; it never
\* leads to CREATED from another state.
C8_RunMutationKeepsBuild ==
    [][\A t \in Callers :
        (Leaves(t, "mutate") /\ res'[t] = "ok" /\ op'[t].group = RUN)
        => /\ file.state \in {RAN, FAILED_RUN} => file'.state = BUILT
           /\ file.state \in {CREATED, BUILT, FAILED_BUILD} => file'.state = file.state
           /\ file'.state = CREATED => file.state = CREATED]_vars

C8_Witness ==
    \E t \in Callers :
        /\ ~NoBuildCommand
        /\ pc[t] = "done" /\ res[t] = "ok"
        /\ op[t].kind = "update" /\ op[t].group = RUN
        /\ Len(file.log_entries) = 2
        /\ file.log_entries[2] = [producer |-> <<"container", "run">>,
                                  message |-> Append(StartMessage, "ComputeError")]
        /\ file.state = BUILT
        /\ file.parameters["tracing"].value = PyTrue

\* the positions inside the body of an exclusive SessionsHandler block
ExclusiveBody == {"precheck", "logappend", "setstate", "sync_call", "sync_run",
                  "w_done", "w_fail", "mutate", "errstatus", "stop", "status"}

\* C9: no two threads are inside an exclusive open of the session at the
\* same time, whether or not their opens are the first ones of the session id
\* and meet at the creation of its lock-table entry.
C9_OneExclusiveOpen ==
    \A t, u \in Threads : (pc[t] \in ExclusiveBody /\ pc[u] \in ExclusiveBody) => t = u

\* the outcome of an exclusive open of t that raised LockedSessionError: a
\* parameter endpoint catches it and answers with the session state, Session.
\* execute and the other endpoints let it out, the worker of an asynchronous
\* execute goes to its except branch or, from there, ends
TimedOut(t) ==
    IF t \in Callers
    THEN /\ res'[t] = "LockedSessionError"
         /\ IF nxt[t] = "mutate" THEN nxt'[t] = "errstatus" ELSE pc'[t] = "done"
    ELSE IF nxt[t] = "w_done"
    THEN exc'[t] = "LockedSessionError" /\ nxt'[t] = "w_fail"
    ELSE pc'[t] = "idle"

\* C10: a thread at the acquire of an exclusive open always has a step to take,
\* and when the lock stays locked by another thread for the second it waits,
\* its open raises LockedSessionError: it never enters the block and loads no
\* session, and the session file, the lock, the lock table and the holder's
\* position and loaded session stay as they were, so that the holder's write
\* back happens as without the attempt.
C10_LockTimeoutFails ==
    /\ [](\A t \in Threads : pc[t] = "acquire" => ENABLED (Acquire(t) \/ AcquireTimeout(t)))
    /\ [][\A t \in Threads :
            (pc[t] = "acquire" /\ look[t] \in locked
                /\ (pc'[t] # "acquire" \/ nxt'[t] # nxt[t]))
            => /\ TimedOut(t)
               /\ pc'[t] \notin ExclusiveBody
               /\ sess'[t] = NoSession
               /\ file' = file /\ disk' = disk
               /\ locked' = locked /\ lockTable' = lockTable
               /\ \A u \in Threads \ {t} :
                    pc'[u] = pc[u] /\ sess'[u] = sess[u] /\ look'[u] = look[u]]_vars

C10_Witness ==
    \E t \in Callers :
        /\ pc[t] = "done" /\ res[t] = "LockedSessionError"
        /\ pc[WorkerOf(t)] \in {"w_done", "w_fail"}
        /\ look[WorkerOf(t)] \in locked
        /\ sess[WorkerOf(t)] # NoSession

\* C20: a stop request that finds the session in a state other than BUILDING
\* and RUNNING is rejected (HTTP 400) and the container is left alone; one
\* that finds BUILDING or RUNNING reaches the backend's stop, which stops the
\* session's container or reports that there is none; either way the state in
\* the session file when the request closes is the state the request loaded,
\* which is the state the file held before.
C20_StopKeepsState ==
    [][\A t \in Callers :
        Leaves(t, "stop")
        => /\ file'.state = sess[t].state
           /\ file'.state = file.state
           /\ IF sess[t].state \in {BUILDING, RUNNING}
              THEN IF container.owner # NoThread
                   THEN container'.stopped /\ res'[t] = "ok"
                   ELSE container' = container
                        /\ res'[t] = "ComputeResourceUnavailableError"
              ELSE container' = container /\ res'[t] = "HTTP400"]_vars

C20_Witness ==
    \E t \in Callers :
        /\ pc[t] = "done" /\ res[t] = "ok"
        /\ container.stopped
        /\ file.state \in {BUILDING, RUNNING}
        /\ pc[WorkerOf(t)] = "w_run"

C12_EnablersDecide ==
    (out # NoCall /\ inp.enabled_by # PyNone)
    => /\ out.raised = ""
       /\ out.available <=>
            \A i \in 1..Len(inp.enabled_by) :
                LET e == inp.enabled_by[i] IN
                /\ inp.values[<<e[3], e[4]>>] = PyTrue
                /\ e[3] = BUILD => inp.state \in {BUILT, RUNNING, RAN, FAILED_RUN}
                /\ e[3] = RUN => inp.state = RAN

C12_Witness ==
    /\ out # NoCall /\ inp.enabled_by # PyNone
    /\ Len(inp.enabled_by) = 2
    /\ inp.enabled_by[1][3] = BUILD /\ inp.enabled_by[2][3] = RUN
    /\ out.available

\* the default a definition entry gives its parameter
DefinitionDefault(v) == IF v[1] = "SysDefCmplxParameter" THEN v[2] ELSE v

\* C14: a resolution that does not fail returns one Parameter per entry of the
\* definition group, in its order and under its name (none if the definition
\* has no such group); a parameter whose name has a non-null entry in the
\* configuration group has that entry as value and overwritten = True, any
\* other has the definition's default as value and overwritten = False; the
\* recorded default is the definition's default in both cases.
C14_OneParameterPerEntry ==
    (out # NoCall /\ out.raised = "")
    => IF inp.sysdef_parameters = PyNone THEN out.parameter_group = <<>>
       ELSE LET defs == inp.sysdef_parameters[2]
                cfg == inp.syscfg_parameters
            IN  /\ Len(out.parameter_group) = Len(defs)
                /\ \A i \in 1..Len(defs) :
                    LET p == out.parameter_group[i]
                        given == IF cfg[1] = "None" THEN {}
                                 ELSE {j \in 1..Len(cfg[2]) :
                                        cfg[2][j][1] = defs[i][1] /\ cfg[2][j][2][1] # "None"}
                    IN  /\ p.name = defs[i][1]
                        /\ p.default_value = DefinitionDefault(defs[i][2])
                        /\ IF given # {}
                           THEN p.overwritten /\ \A j \in given : p.value = cfg[2][j][2]
                           ELSE ~p.overwritten /\ p.value = DefinitionDefault(defs[i][2])

C14_Witness ==
    /\ out # NoCall /\ out.raised = ""
    /\ Len(out.parameter_group) = 2
    /\ out.parameter_group[1].overwritten /\ out.parameter_group[1].value = PyTrue
    /\ ~out.parameter_group[2].overwritten
    /\ \E j \in 1..Len(inp.syscfg_parameters[2]) :
            /\ inp.syscfg_parameters[2][j][1] = out.parameter_group[2].name
            /\ inp.syscfg_parameters[2][j][2] = PyNone

FileStateOf(s, n) == s.parameters[n].file_data.file_state

\* C16: after Parameter.reset a parameter that is no file has its default as
\* value; a file parameter is in state DEFAULT, its container path is the
\* default path of the definition, its origin, local path, name and
\* credentials are None and its staged copy is gone; and a second reset
\* changes neither the parameter nor the files.
C16_ResetIdempotent ==
    [][\A n \in ParamNames :
        (out'.op = "reset" /\ out'.name = n)
        => LET p == file'.parameters[n] IN
           /\ IF IsFileParam(n)
              THEN /\ p.file_data = [file_name |-> PyNone, file_state |-> DEFAULT,
                                     file_path_origin |-> PyNone, file_path_local |-> PyNone,
                                     file_path_container |-> DefaultValue(n),
                                     credentials |-> PyNone]
                   /\ file.parameters[n].file_data.file_path_local \notin disk'
              ELSE p.value = DefaultValue(n)
           /\ Reset(p, n, disk') = [param |-> p, disk |-> disk']]_vars

C16_Witness ==
    /\ out # NoCall /\ out.op = "reset" /\ out.name = "input"
    /\ FileStateOf(file, "input") = DEFAULT
    /\ file.parameters["input"].value = UrlOrigin
    /\ disk = {}
    /\ file.parameters["tracing"].value = PyTrue

\* C17: a file parameter whose configuration gives a URL as origin starts
\* PENDING; a System.execute that stages its group and can download the file
\* leaves it STAGED or AVAILABLE with its copy below the session directory; a
\* file parameter becomes AVAILABLE only in a System.execute that returns
\* normally, the backend call done, and marks its group; and a reset leaves it
\* DEFAULT with the staged copy removed.
C17_UrlFileLifecycle ==
    /\ \A n \in ParamNames :
        IsUrl(file.parameters[n].file_data.file_path_origin) => FileStateOf(file, n) = PENDING
    /\ [][\A n \in {m \in ParamNames : IsFileParam(m)} :
            LET fd == file.parameters[n].file_data
                fd2 == file'.parameters[n].file_data
            IN  /\ (/\ out'.op = "execute"
                    /\ out'.ret \notin {"FileNotFoundError", "URLError"}
                    /\ fd.file_state = PENDING /\ IsUrl(fd.file_path_origin)
                    /\ sysdef.group[n] \in StagedGroups(out'.name))
                   => /\ fd2.file_state \in {STAGED, AVAILABLE}
                      /\ fd2.file_path_local \in disk'
                /\ (fd2.file_state = AVAILABLE /\ fd.file_state # AVAILABLE)
                   => /\ out'.op = "execute" /\ out'.ret = ""
                      /\ sysdef.group[n] \in MarkedGroups(out'.name)
                /\ (out'.op = "reset" /\ out'.name = n)
                   => /\ fd2.file_state = DEFAULT
                      /\ fd.file_path_local \notin disk']_vars

C17_Witness ==
    /\ out # NoCall /\ out.op = "execute" /\ out.ret = ""
    /\ FileStateOf(file, "input") = AVAILABLE
    /\ file.parameters["input"].file_data.file_path_origin = UrlOrigin
    /\ file.parameters["input"].file_data.file_name = <<"str", "data.bin">>
    /\ file.parameters["input"].file_data.file_path_local \in disk

\* C18: after a System.execute that returns normally, the backend call done,
\* every file parameter of the groups staged for the command (common and
\* build for a build, common and run for a run) that was staged for it is
\* AVAILABLE.
C18_StagedBecomeAvailable ==
    [][\A n \in {m \in ParamNames : IsFileParam(m)} :
        (/\ out'.op = "execute" /\ out'.ret = ""
         /\ sysdef.group[n] \in StagedGroups(out'.name)
         /\ FileStateOf(file, n) \in {PENDING, STAGED})
        => FileStateOf(file', n) = AVAILABLE]_vars

\* C19 as stated: a call moves the state of a file parameter forward in the
\* order DEFAULT, PENDING, STAGED, AVAILABLE or leaves it, unless it is a
\* reset of the parameter; a reset leaves it DEFAULT.
C19_ForwardExceptReset ==
    [][\A n \in {m \in ParamNames : IsFileParam(m)} :
        IF out'.op = "reset" /\ out'.name = n
        THEN FileStateOf(file', n) = DEFAULT
        ELSE FileStateOf(file', n) >= FileStateOf(file, n)]_vars

\* C19 as the code has it: a call moves the state of a file parameter forward
\* in the order DEFAULT, PENDING, STAGED, AVAILABLE or leaves it, unless it is
\* a reset of the parameter, which leaves it DEFAULT, or an upload for the
\* parameter (process_input_file), which leaves it STAGED, also when it was
\* AVAILABLE.
C19_ForwardExceptResetAndUpload ==
    [][\A n \in {m \in ParamNames : IsFileParam(m)} :
        IF out'.op = "reset" /\ out'.name = n
        THEN FileStateOf(file', n) = DEFAULT
        ELSE IF out'.op = "process_input_file" /\ out'.name = n /\ out'.ret = ""
        THEN FileStateOf(file', n) = STAGED
        ELSE FileStateOf(file', n) >= FileStateOf(file, n)]_vars

C19_Witness ==
    /\ out # NoCall /\ out.op = "process_input_file" /\ out.name = "input" /\ out.ret = ""
    /\ FileStateOf(file, "input") = STAGED
    /\ file.parameters["input"].file_data.file_name = UploadName
    /\ file.parameters["input"].file_data.file_path_origin = UrlOrigin
    /\ Cardinality(disk) = 2

\* the step is a call of Session.execute for `command` that passes the
\* precondition check, stages its files and whose container exits with 0
Succeeds(command) ==
    /\ out'.op = "execute" /\ out'.name = command
    /\ ~ExecutePreconditionFails(file.state, command, has_build)
    /\ inp'.env = "ok" /\ inp'.output # "ComputeError"

\* C13: with the boolean build parameter tracing (default false) enabling a
\* result, a successful build takes the session from CREATED to BUILT and a
\* successful run from BUILT to RAN; in RAN with tracing true the result is
\* reported available with a null message; while tracing is false the query
\* reports, in any state, not available with a message that names tracing.
C13_TracingEndToEnd ==
    [][/\ Succeeds("build") /\ file.state = CREATED => file'.state = BUILT /\ out'.ret = "ok"
       /\ Succeeds("run") /\ file.state = BUILT => file'.state = RAN /\ out'.ret = "ok"
       /\ out'.op = "get_result_availability" =>
            /\ file.state = RAN /\ file.parameters["tracing"].value = PyTrue
                    => out'.ret = [available |-> TRUE, message |-> PyNone, raised |-> ""]
            /\ file.parameters["tracing"].value = PyFalse
                    => /\ out'.ret.available = FALSE
                       /\ out'.ret.raised = ""
                       /\ out'.ret.message = <<"not set to true", "tracing">>]_vars

C13_Witness ==
    /\ out # NoCall /\ out.op = "get_result_availability"
    /\ out.ret.available /\ out.ret.message = PyNone
    /\ file.state = RAN
    /\ Len(file.log_entries) = 2
    /\ file.log_entries[1].producer = <<"container", "build">>
    /\ file.log_entries[2].producer = <<"container", "run">>

\* the step is a System.execute that stages the group of the file parameter
\* n, which is PENDING before it
Stages(n) ==
    /\ out'.op = "execute"
    /\ ~NoBackendCall(out'.name)
    /\ sysdef.group[n] \in StagedGroups(out'.name)
    /\ FileStateOf(file, n) = PENDING

\* C24: staging a PENDING file parameter whose origin, given by the
\* configuration, is an existing local file copies the file to
\* inputs/<group>/<parameter>/ below the session directory and leaves the
\* parameter STAGED (AVAILABLE once the command succeeded), its container
\* path made of the group, the parameter name and the file name.
C24_LocalOriginStaged ==
    [][\A n \in {m \in ParamNames : IsFileParam(m)} :
        Stages(n) /\ IsLocalFile(file.parameters[n].file_data.file_path_origin)
        => LET fd2 == file'.parameters[n].file_data
               file_name == <<"str", "data.bin">>
           IN  /\ fd2.file_state \in {STAGED, AVAILABLE}
               /\ fd2.file_path_container = ContainerInputPath(sysdef.group[n], n, file_name)
               /\ LocalInputPath(sysdef.group[n], n, file_name) \in disk']_vars

\* C25: when the download of a PENDING file parameter's URL origin fails,
\* staging fails with FileNotFoundError and the parameter's FileData is as
\* before: PENDING, no name, no local path, no container path.
C25_FetchFailureNotFound ==
    [][\A n \in {m \in ParamNames : IsFileParam(m)} :
        Stages(n) /\ IsUrl(file.parameters[n].file_data.file_path_origin) /\ inp'.env # "ok"
        => LET fd2 == file'.parameters[n].file_data
           IN  /\ out'.ret = "FileNotFoundError"
               /\ fd2 = file.parameters[n].file_data
               /\ fd2.file_state = PENDING
               /\ fd2.file_name = PyNone
               /\ fd2.file_path_local = PyNone
               /\ fd2.file_path_container = PyNone]_vars

\* C26: Session.add on a file parameter, whatever its FileData state was,
\* writes the file to inputs/<group>/<parameter>/ below the session directory
\* and leaves the parameter STAGED with its name, local path and container
\* path set; on a parameter that is no file parameter it fails (NameError)
\* and changes neither the parameters nor the session state.
C26_AddStages ==
    [][out'.op = "add" =>
        LET n == out'.name
            g == sysdef.group[n]
            fd2 == file'.parameters[n].file_data
        IN  IF IsFileParam(n)
            THEN /\ out'.ret = ""
                 /\ fd2.file_state = STAGED
                 /\ fd2.file_name = UploadName
                 /\ fd2.file_path_local = LocalInputPath(g, n, UploadName)
                 /\ fd2.file_path_local \in disk'
                 /\ fd2.file_path_container = ContainerInputPath(g, n, UploadName)
            ELSE /\ out'.ret = "NameError"
                 /\ file' = file
                 /\ disk' = disk]_vars

\* an upload for the file parameter that the last successful run had made
\* AVAILABLE or left DEFAULT: the session went from RAN to BUILT
C26_Witness ==
    /\ out # NoCall /\ out.op = "add" /\ out.name = "input" /\ out.ret = ""
    /\ FileStateOf(file, "input") = STAGED
    /\ file.parameters["input"].file_data.file_path_origin = UrlOrigin
    /\ Cardinality(disk) = 2
    /\ file.state = BUILT
    /\ Len(file.log_entries) = 2
    /\ file.log_entries[2] = [producer |-> <<"container", "run">>,
                              message |-> Append(StartMessage, "out")]

\* C21: an execute that fails because an input file cannot be staged (the
\* command itself is never started) leaves the session state as it was
\* before the call.
C21_StagingFailureKeepsState ==
    [][(/\ out'.op = "execute"
        /\ ~ExecutePreconditionFails(file.state, out'.name, has_build)
        /\ ~NoBackendCall(out'.name)
        /\ SystemExecuteStart(file, out'.name, inp'.env, disk).err # "")
       => /\ out'.ret # "ok"
          /\ file'.state = file.state]_vars

\* C22: while the command of an accepted execute runs in its container, in
\* synchronous as in asynchronous mode, the persisted session state is
\* BUILDING (build) or RUNNING (run).
C22_BusyWhileCommandRuns ==
    \A t \in Threads :
        container.owner = t => file.state = InitialStateOf(op[t].cmd)

\* an asynchronous execute of caller c is under way: c is about to start the
\* thread, or the thread has not ended
InFlight(c) == pc[c] = "spawn" \/ pc[WorkerOf(c)] # "idle"

\* C23: the persisted session state is BUILDING or RUNNING only while an
\* asynchronous execution is in flight; the thread of every asynchronous
\* execution ends with the state BUILT, RAN, FAILED_BUILD or FAILED_RUN
\* written.
C23_AsyncReachesTerminalState ==
    file.state \in {BUILDING, RUNNING} => \E c \in Callers : InFlight(c)

\* a is a prefix of b
IsPrefix(a, b) == Len(a) <= Len(b) /\ SubSeq(b, 1, Len(a)) = a

\* C28: the session log is append-only.  No step removes an entry; the step
\* that ends the log-entry block of an accepted execute appends exactly one
\* entry and no other step appends one (a rejected execute never reaches that
\* block); the entries before the last are never modified; and the message of
\* the last entry only grows by text appended to it.
C28_LogAppendOnly ==
    [][LET old == file.log_entries
           new == file'.log_entries
       IN  /\ Len(new) = Len(old) + (IF \E t \in Callers : Leaves(t, "logappend") THEN 1 ELSE 0)
           /\ \A i \in 1..(Len(old) - 1) : new[i] = old[i]
           /\ old # <<>> => /\ new[Len(old)].producer = old[Len(old)].producer
                           /\ IsPrefix(old[Len(old)].message, new[Len(old)].message)
           /\ \A t \in Callers :
                Leaves(t, "precheck") /\ nxt'[t] # "logappend" => new = old]_vars

\* two executes were accepted; the first one's entry holds the chunks of its
\* progress callback, the second one's the exception of its command
C28_Witness ==
    /\ Len(file.log_entries) = 2
    /\ file.log_entries[1].message = StartMessage \o <<"log", "log">>
    /\ file.log_entries[2].message = Append(StartMessage, "ComputeError")
    /\ pc["w1"] = "idle"

\* C29: every chunk the backend passes to the progress callback is in the
\* message of the last log entry when the callback returns, appended behind
\* what the message held.
C29_EveryChunkLogged ==
    [][\A t \in Workers :
        nxt[t] = "w_log" /\ pc'[t] = "w_run"
        => GrewBy(file.log_entries, file'.log_entries, exc[t])]_vars

\* C27: remove_resource first kills and removes the containers that use the
\* session volume, then runs the delete command, then destroys the volume:
\* the delete command and the removal of the volume never find a container of
\* the session running, and once the session is removed the volume is
\* destroyed.
C27_RemoveOrder ==
    /\ pc["c1"] \in {"rm_delete", "rm_volume"} => container.owner = NoThread
    /\ volume = "removed" => container.owner = NoThread
    /\ file = NoSession => volume = "removed"

\* C30: the read-only open of a thread's System.execute never waits for the
\* session lock: it loads the snapshot in one step, whether the lock is locked
\* or not, and leaves the lock as it is; and leaving the read-only block, like
\* everything the thread does inside it, neither writes the snapshot nor
\* releases the lock, so that what System.execute changed in the session
\* object is not in the snapshot.
C30_ReadOnlyOpen ==
    /\ [](\A t \in Workers : nxt[t] = "w_call" => pc[t] # "acquire")
    /\ [][\A t \in Workers :
            /\ (pc[t] = "lookup" /\ nxt[t] = "w_call" /\ pc'[t] # pc[t])
                => /\ pc'[t] = "w_call"
                   /\ sess'[t] = file
                   /\ locked' = locked /\ file' = file
            /\ (pc[t] \in {"w_call", "w_run"} /\ pc'[t] # pc[t])
                => locked' = locked /\ file' = file]_vars

\* the thread's command runs on a session object whose file parameter the
\* staging changed, the snapshot holds the parameter as it was, and the
\* second caller has the session lock
C30_Witness ==
    /\ pc["w1"] = "w_run"
    /\ sess["w1"].parameters["input"].file_data.file_state = STAGED
    /\ FileStateOf(file, "input") = PENDING
    /\ pc["c2"] = "status"
    /\ lockTable \in locked

\* how often the arcname `path` was added to the archive
Occurrences(archive, path) == Cardinality({i \in 1..Len(archive) : archive[i] = path})

\* C31: in the archive of a transfer batch, every directory that holds a file
\* of the batch occurs exactly once, however many files of the batch lie in
\* it and whether or not the directory is an entry of the batch too
C31_DirectoryAddedOnce ==
    out # NoCall =>
        \A i \in 1..Len(inp.files) :
            inp.files[i].is_file =>
                Occurrences(out.archive, Dirname(inp.files[i].destination_path)) = 1

\* C32: a session of a definition without build command is never in CREATED,
\* neither in its persisted snapshot nor in a Session object a thread has
\* loaded, whatever executes, stops and parameter mutations were requested
C32_NoBuildNeverCreated ==
    NoBuildCommand =>
        /\ file.state # CREATED
        /\ \A t \in Threads : sess[t].state # CREATED

\* without build command, a finished run was followed by a mutation in the
\* common or build group, and the session is BUILT
C32_Witness ==
    \E t \in Callers :
        /\ NoBuildCommand
        /\ pc[t] = "done" /\ res[t] = "ok"
        /\ op[t].kind \in {"update", "add", "delete"}
        /\ op[t].group \in {COMMON, BUILD}
        /\ Len(file.log_entries) = 1
        /\ file.log_entries[1] = [producer |-> <<"container", "run">>,
                                  message |-> Append(StartMessage, "out")]
        /\ file.state = BUILT

\* thread t is inside an execute that passed the precondition check and has
\* called build_system / run_system of the backend
ReachedBackend(t) == pc[t] \notin {"idle", "done"} /\ invoked[t]

\* C33: of two executes of one session that are under way together, at most
\* one passes the precondition check and reaches the backend
C33_OneExecuteReachesBackend ==
    Cardinality({t \in Threads : ReachedBackend(t)}) <= 1

\* thread t is inside the body of an exclusive SessionsHandler with-block
InsideExclusive(t) == pc[t] \in ExclusiveBody \cup {"w_log"}

\* C34: the lock of the session (the one the table holds) is locked only
\* while some thread is inside an exclusive with-block that took it, so that
\* an open waits only for a thread that will release the lock
C34_LockHeldOnlyInside ==
    lockTable \in locked =>
        \E t \in Threads : InsideExclusive(t) /\ look[t] = lockTable

\* the snapshots a and b hold the same session state and the same FileData
\* for every parameter
SameEffect(a, b) ==
    /\ a.state = b.state
    /\ \A n \in ParamNames : a.parameters[n].file_data = b.parameters[n].file_data

\* C35: an accepted execute leaves, in either mode, the session state and the
\* FileData of every parameter that the other mode leaves for the same
\* session, command, environment and command outcome
C35_ModesEquivalent ==
    [][\A command \in {"build", "run"} :
        (out'.op = "execute" /\ out'.name = command /\ out'.ret # "UnexpectedSessionState")
        => /\ SameEffect(file', ExecuteSync(file, disk, command, inp'.env, inp'.output).sess)
           /\ SameEffect(file', ExecuteAsync(file, disk, command, inp'.env, inp'.output).sess)]_vars

\* the exceptions that reach the except branch of __execute_async from the
\* SessionsHandler blocks of the thread itself, not from System.execute
HandlerErrors == {"LockedSessionError", "RuntimeError", "IndexError"}

\* C36: the thread of an asynchronous execute writes FAILED_BUILD or
\* FAILED_RUN for a command it started in the backend only when System.execute
\* raised; a command that returned is never recorded as failed
C36_FailedOnlyIfRaised ==
    [][\A t \in Workers :
        (/\ pc[t] = "w_fail" /\ pc'[t] # "w_fail"
         /\ invoked[t]
         /\ file'.state = FailureStateOf(op[t].cmd))
        => exc[t] \notin HandlerErrors]_vars

\* the Session object thread t loaded is the persisted snapshot, apart from
\* what System.execute has done to the file parameters while t runs a
\* synchronous command
LoadedIsCurrent(t) ==
    /\ sess[t].state = file.state
    /\ sess[t].log_entries = file.log_entries
    /\ pc[t] # "sync_run" => sess[t].parameters = file.parameters

\* C37: when a thread leaves the body of an exclusive with-block and its
\* session is written, the snapshot it loaded is still the persisted one: no
\* other thread has written in between a change that the write would undo
C37_NoLostUpdate ==
    [][\A t \in Threads :
        (InsideExclusive(t) /\ pc'[t] # pc[t]) => LoadedIsCurrent(t)]_vars

\* C38: for a session of a definition with build command that is in CREATED,
\* BUILDING or FAILED_BUILD, get_result_availability reports no result as
\* available, whatever the enabled_by of the result is
C38_NoResultBeforeBuild ==
    (out # NoCall /\ has_build /\ inp.state \in {CREATED, BUILDING, FAILED_BUILD})
    => ~out.available

\* C39: a remove_session that ends with an exception keeps the session
\* directory and the lock-table entry, so that it can be repeated; one that
\* returns leaves no volume of the session
C39_KeptUnlessReleased ==
    /\ (pc["c1"] = "done" /\ res["c1"] # "ok") => (file # NoSession /\ lockTable # NoThread)
    /\ (pc["c1"] = "done" /\ res["c1"] = "ok") => volume = "removed"

\* the value satisfies the constraint of the definition entry v
Satisfies(v, value) ==
    /\ (IsCmplx(v) /\ IsEnumMeta(v[3])) => value \in v[3][2]
    /\ (IsCmplx(v) /\ IsRangeMeta(v[3]))
        => (IsNum(value) /\ Num(v[3][2]) <= Num(value) /\ Num(value) <= Num(v[3][3]))
    /\ IsBool(DefinitionDefault(v)) => IsBool(value)

\* C40: the current value of a parameter satisfies the constraint of its
\* definition entry: member of the enum, within the range, a boolean where
\* the default is one
C40_ValueSatisfiesConstraint == Satisfies(inp.sysdef_param_value, out.value)

====
